---- MODULE Spec2Model ----
(***************************************************************************)
(* School ecosystem simulator (src/school_eco_system_simulator.py).        *)
(*                                                                         *)
(* Every Python float is a fixed-point integer counted in 1/Unit, so 0.03  *)
(* is 300 and 1.0 is 10000.  A product of two floats is rounded to the     *)
(* nearest 1/Unit.  simulate_year() is split at its tick boundaries: pc    *)
(* names the tick that runs next, "idle" is the state between two calls.   *)
(***************************************************************************)
EXTENDS Integers, Sequences, FiniteSets, TLC

VARIABLES
    school,      \* the SchoolEcosystem's fields (the actor list is kept apart)
    actors,      \* SchoolEcosystem.actors: a sequence of Actor records
    pc,          \* "idle", or the name of the next tick of the running simulate_year()
    year_start,  \* the fields of school when the running/last simulate_year() was called
    rng_draws,   \* number of values taken from the random stream so far
    reports,     \* number of completed print_reintegration_report() calls
    twin,        \* a second, independent run from the same initial state (SpecDet only)
    twin_draws,  \* values the second run took from the random stream (SpecDet only)
    printed,     \* what the last reporting helper wrote to standard output
    seed         \* the call sites of _noise whose draws come out high (SpecDemo only)

vars == <<school, actors, pc, year_start, rng_draws, reports, twin, twin_draws,
          printed, seed>>

---------------------------------------------------------------------------
(* Bounds of the exploration *)

\* simulate_year() is called at most this many times in a run without noise
MaxYears == 3

\* simulate_year() is called at most this many times in a run with noise
MaxNoisyYears == 1

\* number of students a roster gets
NumStudents == 1

\* print_reintegration_report() is called at most this many times in one run
MaxReports == 2

---------------------------------------------------------------------------
(* Fixed-point arithmetic *)

Unit == 10000

Min(a, b) == IF a <= b THEN a ELSE b

Max(a, b) == IF a >= b THEN a ELSE b

\* a * b of two floats, rounded to the nearest 1/Unit
Mul(a, b) == (a * b + Unit \div 2) \div Unit

\* max(0.0, min(1.0, v))
Clamp01Broken(v) == Min(Unit, v)

Clamp01(v) == Max(0, Min(Unit, v))

---------------------------------------------------------------------------
(* Data classes *)

Roles == {"teacher", "admin", "student"}

StaffAndStudents == {"teacher", "admin", "student"}

\* a.role in ("teacher", "admin")
Staff == {"teacher", "admin"}

\* Actor(...) with the dataclass defaults; os_version is kept as the set of
\* marker substrings the tag contains ("LegacyOS", "HighAdaptOS", "MasOS",
\* "LLM-aware"), which is all the code ever asks of it.
Actor(name, role, os_version, adaptability, protected, change_attitude) ==
    [ name |-> name, role |-> role, os_version |-> os_version,
      adaptability |-> adaptability, protected |-> protected,
      change_attitude |-> change_attitude,
      burned_out |-> FALSE, has_left_system |-> FALSE,
      rebooted_outside |-> FALSE, casualty_of_system |-> FALSE,
      opportunity_cost |-> 0, opportunity_choice |-> "none",
      future_hope_probability |-> 0, is_future_hope |-> FALSE ]

ExternalWorld == [ selection_pressure |-> 8000, ai_shift_speed |-> 9000 ]

EnvironmentConstraints(budget, regulation, demographic) ==
    [ budget_pressure |-> budget, regulation_rigidity |-> regulation,
      demographic_pressure |-> demographic ]

DynamicsCoefficients ==
    [ infra_to_burnout |-> 1000, dxclarity_to_burnout |-> 1000,
      workload_to_burnout |-> 500, complexity_to_burnout |-> 500,
      trustlack_to_burnout |-> 500, personalization_to_burnout |-> 500,
      llm_relief_to_burnout |-> 400, ai_service_relief_to_burnout |-> 300,
      external_system_to_productivity |-> 300, complexity_to_productivity |-> 400,
      workload_to_productivity |-> 200, infra_bad_to_productivity |-> 200,
      fragmentation_to_productivity |-> 300, personalization_to_productivity |-> 300,
      llm_to_productivity |-> 500, ai_access_to_productivity |-> 300,
      base_eff_infra_weight |-> 4000, base_eff_dxclarity_weight |-> 3000,
      suppression_bonus_to_eff |-> 1000, llm_to_efficiency |-> 1000,
      db_to_efficiency |-> 500, portal_to_efficiency |-> 500,
      personalization_to_efficiency |-> 500 ]

\* SchoolEcosystem(name, env) with every other field at its dataclass default
SchoolEcosystem(name, env) ==
    [ name |-> name, env |-> env, dynamics |-> DynamicsCoefficients,
      infrastructure_health |-> 4000, dx_clarity |-> 1000, burnout_index |-> 0,
      student_exit_rate |-> 0, recruitment_difficulty |-> 3000,
      years_simulated |-> 0,
      suppression_level |-> 8000, systemic_opportunity_cost |-> 0,
      change_seeds_planted |-> 0, change_seeds_suppressed |-> 0,
      external_system_dependency |-> 0, external_spend |-> 0,
      learning_cost_index |-> 0, system_complexity |-> 3000, workload_index |-> 5000,
      productivity_index |-> 7000, efficiency_index_true |-> 4000,
      efficiency_index_recognized |-> 1000,
      has_swot |-> FALSE, strategic_consistency |-> 2000,
      change_request_intensity |-> 3000, change_rejection_rate |-> 6000,
      rhetorical_change_slogans |-> 0,
      educational_asset_index |-> 1000, central_repository_level |-> 0,
      student_learning_efficiency |-> 4000, competitor_gap_index |-> 1000,
      innovation_potential_index |-> 0, local_llm_infra_level |-> 0,
      ai_service_quality_index |-> 0, ai_accessibility_index |-> 0,
      portal_maturity |-> 1000, database_foundation |-> 1000,
      process_fragmentation_index |-> 7000, pm_capability |-> 2000,
      grand_design_clarity |-> 1000, leadership_trust_battery |-> 4000,
      info_transparency |-> 3000,
      task_personalization_index |-> 8500,
      randomness |-> 500 ]

\* The fields the specification calls bounded scalars of the Organization
BoundedFields ==
    { "infrastructure_health", "dx_clarity", "burnout_index", "student_exit_rate",
      "recruitment_difficulty", "external_system_dependency", "learning_cost_index",
      "system_complexity", "workload_index", "productivity_index",
      "efficiency_index_true", "efficiency_index_recognized", "strategic_consistency",
      "change_request_intensity", "change_rejection_rate", "educational_asset_index",
      "central_repository_level", "student_learning_efficiency", "competitor_gap_index",
      "innovation_potential_index", "local_llm_infra_level", "ai_service_quality_index",
      "ai_accessibility_index", "portal_maturity", "database_foundation",
      "process_fragmentation_index", "leadership_trust_battery", "info_transparency",
      "task_personalization_index" }

---------------------------------------------------------------------------
(* The random stream *)

\* The values random.uniform(-scale, scale) is explored with: both ends.
UniformDraws(scale) == { -scale, scale }

\* A call that takes nothing from the random stream
NoDraw == [ val |-> 0, drew |-> 0 ]

\* self._noise(scale): the possible results, each with the number of values
\* it took from the random stream
_noise_ignores_randomness(st, scale) ==
    IF scale <= 0
    THEN { NoDraw }
    ELSE { [ val |-> u, drew |-> 1 ] : u \in UniformDraws(scale) }

_noise(st, scale) ==
    IF st.randomness <= 0 \/ scale <= 0
    THEN { NoDraw }
    ELSE { [ val |-> Mul(u, st.randomness), drew |-> 1 ] : u \in UniformDraws(scale) }

---------------------------------------------------------------------------
(* The ticks of simulate_year(): each maps the fields before the tick (and  *)
(* the results of its _noise calls) to the fields after it                  *)

\* for attr in fields: setattr(self, attr, max(0.0, min(1.0, getattr(self, attr))))
ClampFields(st, fields) ==
    [ f \in DOMAIN st |-> IF f \in fields THEN Clamp01(st[f]) ELSE st[f] ]

_tick_infrastructure(st, n) ==
    [ st EXCEPT !.infrastructure_health = Clamp01(@ + (-300) + n.val) ]

_tick_dx_clarity(st, n) ==
    [ st EXCEPT !.dx_clarity = Clamp01(@ + (-200) + n.val) ]

_tick_strategy_layer(st) ==
    LET strong_suppression == st.suppression_level > 6000
        s1 == IF ~st.has_swot /\ strong_suppression
              THEN [ st EXCEPT
                       !.change_request_intensity = @ + Mul(300, st.suppression_level),
                       !.change_rejection_rate = @ + Mul(200, st.suppression_level),
                       !.strategic_consistency = @ - Mul(300, st.suppression_level),
                       !.rhetorical_change_slogans = @ + 1,
                       !.burnout_index = @ + Mul(200, st.suppression_level),
                       !.systemic_opportunity_cost = @ + Mul(1000, st.suppression_level) ]
              ELSE st
        s2 == IF st.has_swot /\ st.suppression_level < 4000 /\ st.dx_clarity > 5000
              THEN [ s1 EXCEPT
                       !.change_request_intensity = @ - 200,
                       !.change_rejection_rate = @ - 300,
                       !.strategic_consistency = @ + 500 ]
              ELSE s1
    IN  ClampFields(s2, { "change_request_intensity", "change_rejection_rate",
                          "strategic_consistency" })

\* the condition of the negative path, under which _tick_portal_and_db calls _noise
PortalNegativePath(st) ==
    /\ st.portal_maturity < 4000
    /\ st.database_foundation < 4000
    /\ st.dx_clarity < 3000

_tick_portal_and_db(st, n) ==
    LET s1 == IF PortalNegativePath(st)
              THEN [ st EXCEPT
                       !.process_fragmentation_index = @ + 400 + n.val,
                       !.workload_index = @ + 200,
                       !.system_complexity = @ + 300,
                       !.student_learning_efficiency = @ - 200,
                       !.productivity_index = @ - 100,
                       !.task_personalization_index = @ + 300 ]
              ELSE st
        factor == Unit - Mul(5000, st.env.regulation_rigidity)
        s2 == IF /\ st.suppression_level < 4000
                 /\ st.dx_clarity > 5000
                 /\ st.infrastructure_health > 4000
                 /\ factor > 0
              THEN [ s1 EXCEPT
                       !.portal_maturity = @ + Mul(500, factor),
                       !.database_foundation = @ + Mul(500, factor),
                       !.process_fragmentation_index = @ - Mul(500, factor),
                       !.educational_asset_index = @ + Mul(300, factor),
                       !.task_personalization_index = @ - Mul(500, factor) ]
              ELSE s1
    IN  ClampFields(s2, { "portal_maturity", "database_foundation",
                          "process_fragmentation_index", "student_learning_efficiency",
                          "productivity_index", "task_personalization_index",
                          "workload_index", "system_complexity",
                          "educational_asset_index" })

_tick_pm_and_design(st) ==
    LET s1 == IF /\ st.pm_capability < 4000
                 /\ st.grand_design_clarity < 4000
                 /\ st.change_request_intensity > 4000
                 /\ st.change_rejection_rate > 5000
              THEN [ st EXCEPT
                       !.burnout_index = @ + 300,
                       !.productivity_index = @ - 200,
                       !.leadership_trust_battery = @ - 300,
                       !.strategic_consistency = @ - 200 ]
              ELSE st
        s2 == IF /\ st.pm_capability > 6000
                 /\ st.grand_design_clarity > 6000
                 /\ st.dx_clarity > 5000
                 /\ st.suppression_level < 4000
              THEN [ s1 EXCEPT
                       !.burnout_index = @ - 200,
                       !.productivity_index = @ + 300,
                       !.leadership_trust_battery = @ + 500,
                       !.strategic_consistency = @ + 300 ]
              ELSE s1
    IN  ClampFields(s2, { "burnout_index", "productivity_index",
                          "leadership_trust_battery", "strategic_consistency" })

\* len(high_adapters) of _tick_change_dynamics, counting only present staff
ActiveHighAdapterCount(acts) ==
    Cardinality({ i \in DOMAIN acts :
                    /\ acts[i].role \in Staff
                    /\ acts[i].adaptability >= 7000
                    /\ ~acts[i].has_left_system })

\* len(high_adapters) of _tick_change_dynamics
HighAdapterCount(acts) ==
    Cardinality({ i \in DOMAIN acts :
                    acts[i].role \in Staff /\ acts[i].adaptability >= 7000 })

_tick_change_dynamics_active_seeds(st, acts) ==
    LET seeds == HighAdapterCount(acts)
        s == st.suppression_level
        openness == Unit - s
        s1 == [ st EXCEPT !.change_seeds_planted = @ + seeds ]
        s2 == IF s > 5000
              THEN [ s1 EXCEPT
                       !.change_seeds_suppressed = @ + ActiveHighAdapterCount(acts),
                       !.systemic_opportunity_cost =
                           @ + ActiveHighAdapterCount(acts) * Mul(4000, s),
                       !.burnout_index = @ + Mul(400, s),
                       !.dx_clarity = @ - Mul(200, s) ]
              ELSE [ s1 EXCEPT
                       !.infrastructure_health = @ + Mul(400, openness),
                       !.dx_clarity = @ + Mul(800, openness),
                       !.burnout_index = @ - Mul(200, openness) ]
    IN  IF seeds = 0
        THEN st
        ELSE ClampFields(s2, { "dx_clarity", "infrastructure_health", "burnout_index" })

_tick_change_dynamics_planted_when_open(st, acts) ==
    LET seeds == HighAdapterCount(acts)
        s == st.suppression_level
        openness == Unit - s
        s2 == IF s > 5000
              THEN [ st EXCEPT
                       !.change_seeds_suppressed = @ + seeds,
                       !.systemic_opportunity_cost = @ + seeds * Mul(4000, s),
                       !.burnout_index = @ + Mul(400, s),
                       !.dx_clarity = @ - Mul(200, s) ]
              ELSE [ st EXCEPT
                       !.change_seeds_planted = @ + seeds,
                       !.infrastructure_health = @ + Mul(400, openness),
                       !.dx_clarity = @ + Mul(800, openness),
                       !.burnout_index = @ - Mul(200, openness) ]
    IN  IF seeds = 0
        THEN st
        ELSE ClampFields(s2, { "dx_clarity", "infrastructure_health", "burnout_index" })

_tick_change_dynamics(st, acts) ==
    LET seeds == HighAdapterCount(acts)
        s == st.suppression_level
        openness == Unit - s
        s1 == [ st EXCEPT !.change_seeds_planted = @ + seeds ]
        s2 == IF s > 5000
              THEN [ s1 EXCEPT
                       !.change_seeds_suppressed = @ + seeds,
                       !.systemic_opportunity_cost = @ + seeds * Mul(4000, s),
                       !.burnout_index = @ + Mul(400, s),
                       !.dx_clarity = @ - Mul(200, s) ]
              ELSE [ s1 EXCEPT
                       !.infrastructure_health = @ + Mul(400, openness),
                       !.dx_clarity = @ + Mul(800, openness),
                       !.burnout_index = @ - Mul(200, openness) ]
    IN  IF seeds = 0
        THEN st
        ELSE ClampFields(s2, { "dx_clarity", "infrastructure_health", "burnout_index" })

_tick_change_dynamics_actors_unfloored(st, acts) ==
    IF HighAdapterCount(acts) = 0 \/ ~(st.suppression_level > 5000)
    THEN acts
    ELSE [ i \in DOMAIN acts |->
             IF acts[i].role = "student"
             THEN [ acts[i] EXCEPT
                      !.adaptability = @ - Mul(100, st.suppression_level) ]
             ELSE acts[i] ]

\* what _tick_change_dynamics does to the actors (the students' adaptability)
_tick_change_dynamics_actors(st, acts) ==
    IF HighAdapterCount(acts) = 0 \/ ~(st.suppression_level > 5000)
    THEN acts
    ELSE [ i \in DOMAIN acts |->
             IF acts[i].role = "student"
             THEN [ acts[i] EXCEPT
                      !.adaptability = Max(0, @ - Mul(100, st.suppression_level)) ]
             ELSE acts[i] ]

_tick_education_assets_at_threshold(st) ==
    LET s1 == IF /\ st.educational_asset_index < 5000
                 /\ st.central_repository_level < 3000
                 /\ st.dx_clarity < 3000
              THEN [ st EXCEPT
                       !.student_learning_efficiency = @ - 300,
                       !.competitor_gap_index = @ + 500 ]
              ELSE st
        factor == Unit - Mul(5000, st.env.budget_pressure)
        s2 == IF st.suppression_level <= 4000 /\ st.dx_clarity > 5000 /\ factor > 0
              THEN [ s1 EXCEPT
                       !.educational_asset_index = @ + Mul(500, factor),
                       !.central_repository_level = @ + Mul(500, factor),
                       !.student_learning_efficiency = @ + Mul(400, factor),
                       !.competitor_gap_index = @ - Mul(300, factor) ]
              ELSE s1
        s3 == IF st.local_llm_infra_level > 0
              THEN [ s2 EXCEPT
                       !.student_learning_efficiency = @ + Mul(300, st.local_llm_infra_level),
                       !.competitor_gap_index = @ - Mul(200, st.local_llm_infra_level) ]
              ELSE s2
    IN  ClampFields(s3, { "student_learning_efficiency", "competitor_gap_index",
                          "educational_asset_index", "central_repository_level" })

_tick_education_assets(st) ==
    LET s1 == IF /\ st.educational_asset_index < 5000
                 /\ st.central_repository_level < 3000
                 /\ st.dx_clarity < 3000
              THEN [ st EXCEPT
                       !.student_learning_efficiency = @ - 300,
                       !.competitor_gap_index = @ + 500 ]
              ELSE st
        factor == Unit - Mul(5000, st.env.budget_pressure)
        s2 == IF st.suppression_level < 4000 /\ st.dx_clarity > 5000 /\ factor > 0
              THEN [ s1 EXCEPT
                       !.educational_asset_index = @ + Mul(500, factor),
                       !.central_repository_level = @ + Mul(500, factor),
                       !.student_learning_efficiency = @ + Mul(400, factor),
                       !.competitor_gap_index = @ - Mul(300, factor) ]
              ELSE s1
        s3 == IF st.local_llm_infra_level > 0
              THEN [ s2 EXCEPT
                       !.student_learning_efficiency = @ + Mul(300, st.local_llm_infra_level),
                       !.competitor_gap_index = @ - Mul(200, st.local_llm_infra_level) ]
              ELSE s2
    IN  ClampFields(s3, { "student_learning_efficiency", "competitor_gap_index",
                          "educational_asset_index", "central_repository_level" })

_tick_innovation(st) ==
    LET ready_for_innovation ==
            /\ st.educational_asset_index >= 5000
            /\ st.central_repository_level >= 5000
            /\ st.dx_clarity >= 6000
            /\ st.suppression_level < 4000
            /\ st.infrastructure_health >= 5000
            /\ st.env.budget_pressure < 8000
        innovation == Min(Unit, st.innovation_potential_index + 500)
        budget_factor == Unit - Mul(5000, st.env.budget_pressure)
        llm == Min(Unit, Max(0,
                   IF budget_factor > 0
                   THEN st.local_llm_infra_level + Mul(Mul(400, innovation), budget_factor)
                   ELSE st.local_llm_infra_level))
        s1 == IF ready_for_innovation
              THEN [ st EXCEPT
                       !.innovation_potential_index = innovation,
                       !.local_llm_infra_level = llm,
                       !.ai_service_quality_index = @ + Mul(500, llm),
                       !.ai_accessibility_index = @ + Mul(400, llm) ]
              ELSE [ st EXCEPT
                       !.innovation_potential_index =
                           IF st.suppression_level > 6000 \/ st.dx_clarity < 3000
                           THEN @ - 200 ELSE @,
                       !.local_llm_infra_level = @ - 100,
                       !.ai_service_quality_index = @ - 100,
                       !.ai_accessibility_index = @ - 100 ]
    IN  ClampFields(s1, { "innovation_potential_index", "local_llm_infra_level",
                          "ai_service_quality_index", "ai_accessibility_index" })

_tick_external_systems(st) ==
    LET s1 == IF st.infrastructure_health < 6000 /\ st.dx_clarity < 3000
              THEN [ st EXCEPT
                       !.external_system_dependency = @ + 500,
                       !.external_spend = @ + 1000,
                       !.learning_cost_index = @ + 500,
                       !.system_complexity = @ + 400,
                       !.workload_index = @ + 300,
                       !.infrastructure_health = @ + 100,
                       !.burnout_index = @ + 200 ]
              ELSE st
        s2 == IF st.suppression_level < 4000 /\ st.dx_clarity > 5000
              THEN [ s1 EXCEPT
                       !.external_system_dependency = @ - 300,
                       !.system_complexity = @ - 300,
                       !.workload_index = @ - 200,
                       !.learning_cost_index = @ - 200 ]
              ELSE s1
    IN  ClampFields(s2, { "external_system_dependency", "learning_cost_index",
                          "system_complexity", "workload_index",
                          "infrastructure_health", "burnout_index" })

_tick_trust_and_transparency_without_portal(st) ==
    LET s1 == IF \/ st.suppression_level > 6000
                 \/ st.info_transparency < 4000
                 \/ st.dx_clarity < 3000
              THEN [ st EXCEPT !.leadership_trust_battery = @ - 300 ]
              ELSE st
        s2 == IF /\ st.suppression_level < 4000
                 /\ st.info_transparency > 6000
                 /\ st.pm_capability > 5000
                 /\ st.grand_design_clarity > 5000
              THEN [ s1 EXCEPT !.leadership_trust_battery = @ + 500 ]
              ELSE s1
        s3 == IF st.suppression_level > 6000
              THEN [ s2 EXCEPT !.info_transparency = @ - 200 ]
              ELSE IF st.suppression_level < 4000
                   THEN [ s2 EXCEPT !.info_transparency = @ + 200 ]
                   ELSE s2
    IN  ClampFields(s3, { "leadership_trust_battery", "info_transparency" })

_tick_trust_and_transparency(st) ==
    LET s1 == IF \/ st.suppression_level > 6000
                 \/ st.info_transparency < 4000
                 \/ st.dx_clarity < 3000
              THEN [ st EXCEPT !.leadership_trust_battery = @ - 300 ]
              ELSE st
        s2 == IF /\ st.suppression_level < 4000
                 /\ st.info_transparency > 6000
                 /\ st.pm_capability > 5000
                 /\ st.grand_design_clarity > 5000
                 /\ st.portal_maturity > 5000
              THEN [ s1 EXCEPT !.leadership_trust_battery = @ + 500 ]
              ELSE s1
        s3 == IF st.suppression_level > 6000
              THEN [ s2 EXCEPT !.info_transparency = @ - 200 ]
              ELSE IF st.suppression_level < 4000
                   THEN [ s2 EXCEPT !.info_transparency = @ + 200 ]
                   ELSE s2
    IN  ClampFields(s3, { "leadership_trust_battery", "info_transparency" })

\* the school-level half of _tick_burnout: burnout_index and recruitment_difficulty
_tick_burnout_from_scratch(st, n) ==
    LET d == st.dynamics
        relief == Mul(d.llm_relief_to_burnout, st.local_llm_infra_level)
                  + Mul(d.ai_service_relief_to_burnout, st.ai_service_quality_index)
        burnout == Clamp01(
              Mul(d.infra_to_burnout, Unit - st.infrastructure_health)
            + Mul(d.dxclarity_to_burnout, Unit - st.dx_clarity)
            + Mul(d.workload_to_burnout, st.workload_index)
            + Mul(d.complexity_to_burnout, st.system_complexity)
            + Mul(d.trustlack_to_burnout, Unit - st.leadership_trust_battery)
            + Mul(d.personalization_to_burnout, st.task_personalization_index)
            - relief
            + n.val)
    IN  [ st EXCEPT
            !.burnout_index = burnout,
            !.recruitment_difficulty =
                Min(Unit,
                      3000
                    + Mul(burnout, 2000)
                    + Mul(st.system_complexity, 2000)
                    + Mul(Unit - st.leadership_trust_battery, 2000)
                    + Mul(1000, st.env.demographic_pressure)) ]

_tick_burnout(st, n) ==
    LET d == st.dynamics
        relief == Mul(d.llm_relief_to_burnout, st.local_llm_infra_level)
                  + Mul(d.ai_service_relief_to_burnout, st.ai_service_quality_index)
        burnout == Clamp01(
              st.burnout_index
            + Mul(d.infra_to_burnout, Unit - st.infrastructure_health)
            + Mul(d.dxclarity_to_burnout, Unit - st.dx_clarity)
            + Mul(d.workload_to_burnout, st.workload_index)
            + Mul(d.complexity_to_burnout, st.system_complexity)
            + Mul(d.trustlack_to_burnout, Unit - st.leadership_trust_battery)
            + Mul(d.personalization_to_burnout, st.task_personalization_index)
            - relief
            + n.val)
    IN  [ st EXCEPT
            !.burnout_index = burnout,
            !.recruitment_difficulty =
                Min(Unit,
                      3000
                    + Mul(burnout, 2000)
                    + Mul(st.system_complexity, 2000)
                    + Mul(Unit - st.leadership_trust_battery, 2000)
                    + Mul(1000, st.env.demographic_pressure)) ]

\* threshold = 0.5 + (0.5 - a.adaptability)
BurnoutThresholdInverted(a) == 5000 - (5000 - a.adaptability)

BurnoutThreshold(a) == 5000 + (5000 - a.adaptability)

\* a.adaptability > 0.6: the burned-out actor leaves instead of staying
LeavesWhenBurnedOutInclusive(a) == a.adaptability >= 6000

LeavesWhenBurnedOutBelow(a) == a.adaptability < 6000

LeavesWhenBurnedOut(a) == a.adaptability > 6000

BurnoutActorRecomputed(a, burnout_index) ==
    IF a.role \in Staff /\ ~a.has_left_system
    THEN IF burnout_index > BurnoutThreshold(a)
         THEN IF a.burned_out
              THEN a
              ELSE IF LeavesWhenBurnedOut(a)
                   THEN [ a EXCEPT !.burned_out = TRUE,
                                   !.has_left_system = TRUE,
                                   !.opportunity_choice = "leave_outside",
                                   !.opportunity_cost = @ + 10000 ]
                   ELSE [ a EXCEPT !.burned_out = TRUE,
                                   !.opportunity_choice = "stay_inside",
                                   !.opportunity_cost = @ + 7000 ]
         ELSE [ a EXCEPT !.burned_out = FALSE ]
    ELSE a

BurnoutActorRepeated(a, burnout_index) ==
    IF a.role \in Staff /\ ~a.has_left_system
       /\ burnout_index > BurnoutThreshold(a)
    THEN IF LeavesWhenBurnedOut(a)
         THEN [ a EXCEPT !.burned_out = TRUE,
                         !.has_left_system = TRUE,
                         !.opportunity_choice = "leave_outside",
                         !.opportunity_cost = @ + 10000 ]
         ELSE [ a EXCEPT !.burned_out = TRUE,
                         !.opportunity_choice = "stay_inside",
                         !.opportunity_cost = @ + 7000 ]
    ELSE a

BurnoutActorAtThreshold(a, burnout_index) ==
    IF a.role \in Staff /\ ~a.has_left_system
       /\ ~a.burned_out /\ burnout_index >= BurnoutThreshold(a)
    THEN IF LeavesWhenBurnedOut(a)
         THEN [ a EXCEPT !.burned_out = TRUE,
                         !.has_left_system = TRUE,
                         !.opportunity_choice = "leave_outside",
                         !.opportunity_cost = @ + 10000 ]
         ELSE [ a EXCEPT !.burned_out = TRUE,
                         !.opportunity_choice = "stay_inside",
                         !.opportunity_cost = @ + 7000 ]
    ELSE a

\* the body of the loop "for a in self.actors" of _tick_burnout, for one
\* actor a and the burnout_index the tick has just computed
BurnoutActor(a, burnout_index) ==
    IF a.role \in Staff /\ ~a.has_left_system
       /\ ~a.burned_out /\ burnout_index > BurnoutThreshold(a)
    THEN IF LeavesWhenBurnedOut(a)
         THEN [ a EXCEPT !.burned_out = TRUE,
                         !.has_left_system = TRUE,
                         !.opportunity_choice = "leave_outside",
                         !.opportunity_cost = @ + 10000 ]
         ELSE [ a EXCEPT !.burned_out = TRUE,
                         !.opportunity_choice = "stay_inside",
                         !.opportunity_cost = @ + 7000 ]
    ELSE a

_tick_burnout_actors_with_outcome(st, acts) ==
    [ i \in DOMAIN acts |->
        LET a == BurnoutActor(acts[i], st.burnout_index)
        IN  IF a.has_left_system /\ ~acts[i].has_left_system
            THEN [ a EXCEPT !.casualty_of_system = TRUE ]
            ELSE a ]

\* the actor half of _tick_burnout; st is the school after _tick_burnout(st, n)
_tick_burnout_actors(st, acts) ==
    [ i \in DOMAIN acts |-> BurnoutActor(acts[i], st.burnout_index) ]

_tick_students(st, n) ==
    LET raw ==   Mul(Unit - st.infrastructure_health, 2000)
               + Mul(st.burnout_index, 2000)
               + Mul(st.competitor_gap_index, 2000)
               + Mul(Max(0, 5000 - st.student_learning_efficiency), 2000)
               + Mul(Unit - st.leadership_trust_battery, 1000)
               + Mul(1000, st.env.demographic_pressure)
               - Mul(1000, st.ai_accessibility_index)
               - Mul(1000, st.ai_service_quality_index)
               + n.val
    IN  [ st EXCEPT !.student_exit_rate = Clamp01(raw) ]

\* the KPI ratchet of _tick_productivity_and_efficiency
RecognizedEfficiencyReset(st) ==
    Clamp01(Mul(300, st.external_system_dependency) + Mul(200, st.system_complexity))

RecognizedEfficiency(st) ==
    Clamp01(  st.efficiency_index_recognized
            + Mul(300, st.external_system_dependency)
            + Mul(200, st.system_complexity))

_tick_productivity_and_efficiency_cumulative(st, n1, n2) ==
    LET d == st.dynamics
        productivity == Clamp01(
              st.productivity_index
            - Mul(d.external_system_to_productivity, st.external_system_dependency)
            - Mul(d.complexity_to_productivity, st.system_complexity)
            - Mul(d.workload_to_productivity, st.workload_index)
            - Mul(d.infra_bad_to_productivity, Unit - st.infrastructure_health)
            - Mul(d.fragmentation_to_productivity, st.process_fragmentation_index)
            - Mul(d.personalization_to_productivity, st.task_personalization_index)
            + Mul(d.llm_to_productivity, st.local_llm_infra_level)
            + Mul(d.ai_access_to_productivity, st.ai_accessibility_index)
            + n1.val)
        base ==   st.efficiency_index_true
                + Mul(d.base_eff_infra_weight, st.infrastructure_health)
                + Mul(d.base_eff_dxclarity_weight, st.dx_clarity)
                + (IF st.suppression_level < 4000 THEN d.suppression_bonus_to_eff ELSE 0)
                + Mul(d.llm_to_efficiency, st.local_llm_infra_level)
                + Mul(d.db_to_efficiency, st.database_foundation)
                + Mul(d.portal_to_efficiency, st.portal_maturity)
                - Mul(d.personalization_to_efficiency, st.task_personalization_index)
                + n2.val
    IN  [ st EXCEPT
            !.productivity_index = productivity,
            !.efficiency_index_true = Clamp01(base),
            !.efficiency_index_recognized = RecognizedEfficiency(st) ]

\* n1 is the noise of productivity_index, n2 the noise of efficiency_index_true
_tick_productivity_and_efficiency(st, n1, n2) ==
    LET d == st.dynamics
        productivity == Clamp01(
              st.productivity_index
            - Mul(d.external_system_to_productivity, st.external_system_dependency)
            - Mul(d.complexity_to_productivity, st.system_complexity)
            - Mul(d.workload_to_productivity, st.workload_index)
            - Mul(d.infra_bad_to_productivity, Unit - st.infrastructure_health)
            - Mul(d.fragmentation_to_productivity, st.process_fragmentation_index)
            - Mul(d.personalization_to_productivity, st.task_personalization_index)
            + Mul(d.llm_to_productivity, st.local_llm_infra_level)
            + Mul(d.ai_access_to_productivity, st.ai_accessibility_index)
            + n1.val)
        base ==   2000
                + Mul(d.base_eff_infra_weight, st.infrastructure_health)
                + Mul(d.base_eff_dxclarity_weight, st.dx_clarity)
                + (IF st.suppression_level < 4000 THEN d.suppression_bonus_to_eff ELSE 0)
                + Mul(d.llm_to_efficiency, st.local_llm_infra_level)
                + Mul(d.db_to_efficiency, st.database_foundation)
                + Mul(d.portal_to_efficiency, st.portal_maturity)
                - Mul(d.personalization_to_efficiency, st.task_personalization_index)
                + n2.val
    IN  [ st EXCEPT
            !.productivity_index = productivity,
            !.efficiency_index_true = Clamp01(base),
            !.efficiency_index_recognized = RecognizedEfficiency(st) ]

---------------------------------------------------------------------------
(* ExternalWorld *)

required_threshold(world) ==
    world.selection_pressure + Mul(world.ai_shift_speed, 1000)

base_effective_adaptability(world, actor) ==
    LET b0 == actor.adaptability
        b1 == IF "LegacyOS" \in actor.os_version THEN b0 - 1500 ELSE b0
        b2 == IF actor.os_version \cap { "HighAdaptOS", "MasOS", "LLM-aware" } # {}
              THEN b1 + 1500 ELSE b1
    IN  IF actor.change_attitude = "support" THEN b2 + 500
        ELSE IF actor.change_attitude = "resist" THEN b2 - 500
        ELSE b2

evaluate_actor_after_burnout(world, actor) ==
    base_effective_adaptability(world, actor) - (IF actor.burned_out THEN 2000 ELSE 0)
        >= required_threshold(world)

evaluate_actor(world, actor) ==
    base_effective_adaptability(world, actor) >= required_threshold(world)

reintegration_outcome_without_penalty(world, actor, u) ==
    LET base == base_effective_adaptability(world, actor) + u
    IN  IF base >= required_threshold(world) THEN "rebooted" ELSE "casualty"

\* u is the value random.uniform(-0.1, 0.1) returned
reintegration_outcome(world, actor, u) ==
    LET base == base_effective_adaptability(world, actor)
                - (IF actor.burned_out THEN 2000 ELSE 0)
                + u
    IN  IF base >= required_threshold(world) THEN "rebooted" ELSE "casualty"

---------------------------------------------------------------------------
(* Future hope probability *)

\* 1 / (1 + exp(-x)) at x = -8.0, -7.5, ..., 8.0
SigmoidTable ==
    << 3, 6, 9, 15, 25, 41, 67, 110, 180, 293, 474, 759, 1192, 1824, 2689, 3775,
       5000, 6225, 7311, 8176, 8808, 9241, 9526, 9707, 9820, 9890, 9933, 9959,
       9975, 9985, 9991, 9994, 9997 >>

\* 1.0 / (1.0 + math.exp(-logit)): the table, interpolated linearly between
\* its points and constant beyond its ends
Sigmoid(logit) ==
    LET x == logit + 8 * Unit
        k == x \div 5000
        r == x % 5000
    IN  IF x <= 0 THEN SigmoidTable[1]
        ELSE IF k >= 32 THEN SigmoidTable[33]
        ELSE SigmoidTable[k + 1]
             + ((SigmoidTable[k + 2] - SigmoidTable[k + 1]) * r) \div 5000

\* env_score of student_future_hope_probability
EnvScore(st) ==
    Clamp01((  (Unit - st.suppression_level)
             + st.dx_clarity
             + st.student_learning_efficiency
             + st.ai_accessibility_index) \div 4)

student_future_hope_probability_linear(st, world, actor) ==
    LET delta == base_effective_adaptability(world, actor) - required_threshold(world)
        baseline_logit == -25000 + 3 * EnvScore(st)
        logit == baseline_logit + 5 * delta
    IN  5000 + logit \div 4

student_future_hope_probability_inverted(st, world, actor) ==
    LET delta == required_threshold(world) - base_effective_adaptability(world, actor)
        baseline_logit == -25000 + 3 * EnvScore(st)
        logit == baseline_logit + 5 * delta
    IN  Clamp01(Sigmoid(logit))

student_future_hope_probability(st, world, actor) ==
    LET delta == base_effective_adaptability(world, actor) - required_threshold(world)
        baseline_logit == -25000 + 3 * EnvScore(st)
        logit == baseline_logit + 5 * delta
    IN  Clamp01(Sigmoid(logit))

---------------------------------------------------------------------------
(* Reporting *)

ReintegratesBurnedOut(a) == a.role \in Staff /\ a.burned_out

\* the actors print_reintegration_report asks reintegration_outcome about
Reintegrates(a) == a.role \in Staff /\ a.has_left_system

\* The two ends of what a draw can return, by index 0 and 1:
\* random.uniform(-0.1, 0.1) and random.random()
ReintegrationDraw(c) == IF c = 0 THEN -1000 ELSE 1000

CoinDraw(c) == IF c = 0 THEN 0 ELSE Unit - 1

\* what print_reintegration_report does to one actor, c being the index of
\* the draw made for it
ReportActor(st, world, a, c) ==
    IF Reintegrates(a)
    THEN IF reintegration_outcome(world, a, ReintegrationDraw(c)) = "rebooted"
         THEN [ a EXCEPT !.rebooted_outside = TRUE ]
         ELSE [ a EXCEPT !.casualty_of_system = TRUE ]
    ELSE IF a.role = "student"
    THEN LET p_future == student_future_hope_probability(st, world, a)
         IN  [ a EXCEPT !.future_hope_probability = p_future,
                        !.is_future_hope = (CoinDraw(c) < p_future) ]
    ELSE a

\* one draw index per actor; an actor the report draws nothing for gets 0
ReportDraws(acts) ==
    { c \in [ DOMAIN acts -> {0, 1} ] :
        \A i \in DOMAIN acts :
            ~Reintegrates(acts[i]) /\ acts[i].role # "student" => c[i] = 0 }

\* ratio = fh / total if total > 0 else 0.0; raised names the exception the
\* expression ends with, "none" when it returns
RatioUnguarded(fh, total) ==
    IF total # 0
    THEN [ raised |-> "none", value |-> (fh * Unit) \div total ]
    ELSE [ raised |-> "ZeroDivisionError", value |-> 0 ]

Ratio(fh, total) ==
    IF total > 0
    THEN [ raised |-> "none", value |-> (fh * Unit) \div total ]
    ELSE [ raised |-> "none", value |-> 0 ]

\* the future-hope ratio print_reintegration_report prints for the actors as
\* its student loop leaves them
FutureHopeRatio(acts) ==
    LET students == { i \in DOMAIN acts : acts[i].role = "student" }
        future_hope_students == { i \in students : acts[i].is_future_hope }
    IN  Ratio(Cardinality(future_hope_students), Cardinality(students))

\* standard output before any reporting helper has run
NothingPrinted == [ kind |-> "none" ]

\* number of values print_reintegration_report takes from the random stream
ReportDrawCount(acts) ==
    Cardinality({ i \in DOMAIN acts : Reintegrates(acts[i]) \/ acts[i].role = "student" })

---------------------------------------------------------------------------
(* Stakeholder utilities *)

\* StakeholderUtility(name, weights); weights is the dict as the sequence of
\* its items, in insertion order
StakeholderUtility(name, weights) == [ name |-> name, weights |-> weights ]

\* build_default_utilities()
DefaultUtilities ==
    << StakeholderUtility("TeacherPerspective",
          << <<"burnout_index", -7000>>, <<"workload_index", -5000>>,
             <<"student_learning_efficiency", 3000>>,
             <<"leadership_trust_battery", 4000>>,
             <<"recruitment_difficulty", -3000>> >>),
       StakeholderUtility("ManagementKPIPerspective",
          << <<"efficiency_index_recognized", 6000>>, <<"external_spend", -3000>>,
             <<"competitor_gap_index", -4000>>, <<"student_exit_rate", -4000>> >>),
       StakeholderUtility("StudentParentPerspective",
          << <<"student_learning_efficiency", 6000>>,
             <<"ai_accessibility_index", 4000>>,
             <<"ai_service_quality_index", 4000>>,
             <<"burnout_index", -3000>>, <<"student_exit_rate", -5000>> >>) >>

\* a utility a stakeholder defined with a weight on "morale_index", which is
\* no field of SchoolEcosystem, between two weights on fields
CustomUtility ==
    StakeholderUtility("StaffMorale",
        << <<"burnout_index", -7000>>, <<"morale_index", 5000>>,
           <<"leadership_trust_battery", 4000>> >>)

\* the lists of utilities print_stakeholder_scores is called with
UtilityLists ==
    { DefaultUtilities, <<CustomUtility>>, DefaultUtilities \o <<CustomUtility>>,
      <<CustomUtility>> \o DefaultUtilities }

RECURSIVE ScoreLenientFrom(_, _, _, _)
ScoreLenientFrom(weights, st, k, s) ==
    IF k > Len(weights) THEN [ raised |-> "none", value |-> s ]
    ELSE LET v == IF weights[k][1] \in DOMAIN st THEN st[weights[k][1]] ELSE 0
         IN  ScoreLenientFrom(weights, st, k + 1, s + Mul(weights[k][2], v))

score_lenient(u, st) == ScoreLenientFrom(u.weights, st, 1, 0)

\* the loop of StakeholderUtility.score from the k-th item on, s being the
\* sum so far; getattr raises AttributeError for a name st has no field for
RECURSIVE ScoreFrom(_, _, _, _)
ScoreFrom(weights, st, k, s) ==
    IF k > Len(weights) THEN [ raised |-> "none", value |-> s ]
    ELSE IF weights[k][1] \notin DOMAIN st
         THEN [ raised |-> "AttributeError", value |-> 0 ]
         ELSE ScoreFrom(weights, st, k + 1, s + Mul(weights[k][2], st[weights[k][1]]))

\* StakeholderUtility.score(school)
score(u, st) == ScoreFrom(u.weights, st, 1, 0)

\* the lines print_stakeholder_scores prints: one score per utility, up to
\* and including the first one that raises
ScoresPrinted(utilities, st) ==
    LET raising == { i \in DOMAIN utilities : score(utilities[i], st).raised # "none" }
        last == IF raising = {} THEN Len(utilities)
                ELSE CHOOSE i \in raising : \A j \in raising : i <= j
    IN  [ i \in 1..last |->
            [ name |-> utilities[i].name, score |-> score(utilities[i], st) ] ]

---------------------------------------------------------------------------
(* Scenario construction *)

\* the six named staff of build_demo_scenario
DemoStaff ==
    << Actor("LegacyDXChief", "admin", {"LegacyOS"}, 3000, TRUE, "neutral"),
       Actor("LegacyTeacherA", "teacher", {"LegacyOS"}, 4000, TRUE, "support"),
       Actor("LegacyTeacherB", "teacher", {"LegacyOS"}, 3500, TRUE, "resist"),
       Actor("HighAdaptTeacher1", "teacher", {"HighAdaptOS", "LLM-aware"}, 9000, FALSE, "support"),
       Actor("HighAdaptTeacher2", "teacher", {"HighAdaptOS"}, 8000, FALSE, "support"),
       Actor("HighAdaptTeacher3", "teacher", {"HighAdaptOS"}, 7500, TRUE, "neutral") >>

\* what the student loop of build_demo_scenario can draw for one student:
\* an adaptability clipped to [0.1, 0.9] and an attitude
StudentDraws ==
    { <<1000, "resist">>, <<5000, "neutral">>, <<9000, "support">> }

\* the students build_demo_scenario appends, NumStudents of them
Students(draw) ==
    [ i \in 1..NumStudents |->
        Actor("Student", "student", {}, draw[i][1], TRUE, draw[i][2]) ]

\* staff at the edges of the burnout rules: adaptability 0, exactly 0.6,
\* exactly 0.7 and 1.0; no students
ProbeRoster ==
    << Actor("Zero", "admin", {"LegacyOS"}, 0, TRUE, "resist"),
       Actor("Edge06", "teacher", {}, 6000, TRUE, "neutral"),
       Actor("Edge07", "teacher", {"MasOS"}, 7000, TRUE, "neutral"),
       Actor("Full", "admin", {"HighAdaptOS", "LLM-aware"}, 10000, FALSE, "support") >>

\* a student whose adaptability years of suppression have worn down to 0.005
WornStudent == Actor("WornStudent", "student", {}, 50, TRUE, "resist")

\* staff without a high adapter (adaptability >= 0.7)
LegacyStaff ==
    << Actor("LegacyAdmin", "admin", {"LegacyOS"}, 3000, TRUE, "resist"),
       Actor("MidTeacher", "teacher", {}, 6500, TRUE, "neutral") >>

\* school = SchoolEcosystem(name="ProtectedSchool", env=env) of build_demo_scenario
DemoSchool ==
    SchoolEcosystem("ProtectedSchool", EnvironmentConstraints(6000, 5000, 4000))

\* the demo school late in its decline: change conflict and near-full burnout
StrainedSchool ==
    [ DemoSchool EXCEPT !.name = "StrainedSchool",
                        !.change_request_intensity = 5000,
                        !.burnout_index = 9500,
                        !.randomness = 0 ]

\* an Organization with a strategic review, low suppression and sound foundations
OpenSchool ==
    [ SchoolEcosystem("OpenSchool", EnvironmentConstraints(2000, 2000, 2000)) EXCEPT
        !.suppression_level = 3000, !.has_swot = TRUE,
        !.infrastructure_health = 7000, !.dx_clarity = 7000,
        !.pm_capability = 7000, !.grand_design_clarity = 7000,
        !.info_transparency = 7000, !.portal_maturity = 6000,
        !.database_foundation = 6000, !.educational_asset_index = 5000,
        !.central_repository_level = 5000, !.randomness = 0 ]

\* the open Organization without a clear DX roadmap
UnclearOpenSchool ==
    [ OpenSchool EXCEPT !.name = "UnclearOpenSchool", !.dx_clarity = 1000 ]

\* the open Organization with a portal that is still immature
EarlyPortalSchool ==
    [ OpenSchool EXCEPT !.name = "EarlyPortalSchool", !.portal_maturity = 3000 ]

\* the open Organization with suppression_level exactly at 0.4
ThresholdSchool ==
    [ OpenSchool EXCEPT !.name = "ThresholdSchool", !.suppression_level = 4000 ]

\* every scalar of the Organization and its environment at v
UniformSchool(name, v, swot) ==
    LET base == SchoolEcosystem(name, EnvironmentConstraints(v, v, v))
    IN  [ f \in DOMAIN base |->
            IF f \in BoundedFields \cup { "suppression_level", "pm_capability",
                                          "grand_design_clarity", "randomness" }
            THEN v
            ELSE IF f = "has_swot" THEN swot ELSE base[f] ]

SaturatedSchool == UniformSchool("SaturatedSchool", Unit, FALSE)

ZeroSchool == [ UniformSchool("ZeroSchool", 0, TRUE) EXCEPT !.randomness = Unit ]

\* the demo school at a suppression level s between the open and the
\* strongly suppressing range (0.4 <= s <= 0.6)
HalfSchool(s) ==
    [ DemoSchool EXCEPT !.name = "HalfSchool", !.suppression_level = s,
                        !.randomness = 0 ]

\* an open Organization with working AI infrastructure whose burnout recedes
RecoveringSchool ==
    [ OpenSchool EXCEPT
        !.name = "RecoveringSchool",
        !.infrastructure_health = Unit, !.dx_clarity = Unit,
        !.leadership_trust_battery = Unit, !.workload_index = 0,
        !.system_complexity = 0, !.task_personalization_index = 0,
        !.local_llm_infra_level = Unit, !.ai_service_quality_index = Unit,
        !.burnout_index = 6000 ]

\* the same Organization with the randomness dial at r
WithRandomness(sch, r) == [ sch EXCEPT !.randomness = r ]

\* the scenarios without noise (randomness = 0.0)
QuietScenarios ==
         { [ school |-> WithRandomness(DemoSchool, 0),
             actors |-> DemoStaff \o Students(d) ] :
             d \in [ 1..NumStudents -> StudentDraws ] }
    \cup { [ school |-> sch, actors |-> LegacyStaff \o Students(d) ] :
             sch \in { OpenSchool, WithRandomness(ZeroSchool, 0) },
             d \in [ 1..NumStudents -> StudentDraws ] }
    \cup { [ school |-> sch, actors |-> ProbeRoster ] :
             sch \in { StrainedSchool, HalfSchool(5000), HalfSchool(6000),
                       RecoveringSchool, WithRandomness(SaturatedSchool, 0) } }
    \cup { [ school |-> OpenSchool, actors |-> DemoStaff ],
           [ school |-> UnclearOpenSchool, actors |-> LegacyStaff ],
           [ school |-> EarlyPortalSchool, actors |-> LegacyStaff ],
           [ school |-> ThresholdSchool, actors |-> LegacyStaff ],
           [ school |-> StrainedSchool, actors |-> ProbeRoster \o <<WornStudent>> ] }

\* the scenarios with noise: the demo school as build_demo_scenario builds it
\* (randomness 0.05) and the two extreme Organizations at randomness 1.0
NoisyScenarios ==
    { [ school |-> DemoSchool, actors |-> LegacyStaff ],
      [ school |-> SaturatedSchool, actors |-> ProbeRoster ],
      [ school |-> ZeroSchool, actors |-> LegacyStaff ] }

Scenarios == QuietScenarios \cup NoisyScenarios

---------------------------------------------------------------------------
(* The state machine *)

TickOrder ==
    << "_tick_infrastructure", "_tick_dx_clarity", "_tick_strategy_layer",
       "_tick_portal_and_db", "_tick_pm_and_design", "_tick_change_dynamics",
       "_tick_education_assets", "_tick_innovation", "_tick_external_systems",
       "_tick_trust_and_transparency", "_tick_burnout", "_tick_students",
       "_tick_productivity_and_efficiency" >>

\* the tick simulate_year() calls after tick p, "idle" after the last one
NextPc(p) ==
    LET i == CHOOSE k \in DOMAIN TickOrder : TickOrder[k] = p
    IN  IF i = Len(TickOrder) THEN "idle" ELSE TickOrder[i + 1]

Init ==
    /\ \E sc \in Scenarios :
         /\ school = sc.school
         /\ actors = sc.actors
    /\ pc = "idle"
    /\ year_start = school
    /\ rng_draws = 0
    /\ reports = 0
    /\ twin = [ school |-> school, actors |-> actors ]
    /\ twin_draws = 0
    /\ printed = NothingPrinted
    /\ seed = {}

\* how many years a run of this Organization is followed for
YearsBound(st) == IF st.randomness > 0 THEN MaxNoisyYears ELSE MaxYears

\* one tick of the running simulate_year() has returned
Advance(st, acts, drew) ==
    /\ school' = st
    /\ actors' = acts
    /\ pc' = NextPc(pc)
    /\ rng_draws' = rng_draws + drew
    /\ UNCHANGED <<year_start, reports, twin, twin_draws, printed, seed>>

\* simulate_year() is called: self.years_simulated += 1
SimulateYear ==
    /\ pc = "idle"
    /\ school.years_simulated < YearsBound(school)
    /\ school' = [ school EXCEPT !.years_simulated = @ + 1 ]
    /\ year_start' = school
    /\ pc' = TickOrder[1]
    /\ UNCHANGED <<actors, rng_draws, reports, twin, twin_draws, printed, seed>>

TickInfrastructure ==
    /\ pc = "_tick_infrastructure"
    /\ \E n \in _noise(school, 200) :
         Advance(_tick_infrastructure(school, n), actors, n.drew)

TickDxClarity ==
    /\ pc = "_tick_dx_clarity"
    /\ \E n \in _noise(school, 200) :
         Advance(_tick_dx_clarity(school, n), actors, n.drew)

TickStrategyLayer ==
    /\ pc = "_tick_strategy_layer"
    /\ Advance(_tick_strategy_layer(school), actors, 0)

TickPortalAndDb ==
    /\ pc = "_tick_portal_and_db"
    /\ \E n \in (IF PortalNegativePath(school) THEN _noise(school, 200) ELSE { NoDraw }) :
         Advance(_tick_portal_and_db(school, n), actors, n.drew)

TickPmAndDesign ==
    /\ pc = "_tick_pm_and_design"
    /\ Advance(_tick_pm_and_design(school), actors, 0)

TickChangeDynamics ==
    /\ pc = "_tick_change_dynamics"
    /\ Advance(_tick_change_dynamics(school, actors),
               _tick_change_dynamics_actors(school, actors), 0)

TickEducationAssets ==
    /\ pc = "_tick_education_assets"
    /\ Advance(_tick_education_assets(school), actors, 0)

TickInnovation ==
    /\ pc = "_tick_innovation"
    /\ Advance(_tick_innovation(school), actors, 0)

TickExternalSystems ==
    /\ pc = "_tick_external_systems"
    /\ Advance(_tick_external_systems(school), actors, 0)

TickTrustAndTransparency ==
    /\ pc = "_tick_trust_and_transparency"
    /\ Advance(_tick_trust_and_transparency(school), actors, 0)

TickBurnout ==
    /\ pc = "_tick_burnout"
    /\ \E n \in _noise(school, 200) :
         LET st == _tick_burnout(school, n)
         IN  Advance(st, _tick_burnout_actors(st, actors), n.drew)

TickStudents ==
    /\ pc = "_tick_students"
    /\ \E n \in _noise(school, 500) :
         Advance(_tick_students(school, n), actors, n.drew)

TickProductivityAndEfficiency ==
    /\ pc = "_tick_productivity_and_efficiency"
    /\ \E n1 \in _noise(school, 300), n2 \in _noise(school, 300) :
         Advance(_tick_productivity_and_efficiency(school, n1, n2), actors,
                 n1.drew + n2.drew)

\* print_reintegration_report(school, world), called between two years
PrintReintegrationReport ==
    /\ pc = "idle"
    /\ reports < MaxReports
    /\ \E c \in ReportDraws(actors) :
         actors' = [ i \in DOMAIN actors |->
                       ReportActor(school, ExternalWorld, actors[i], c[i]) ]
    /\ rng_draws' = rng_draws + ReportDrawCount(actors)
    /\ reports' = reports + 1
    /\ printed' = [ kind |-> "reintegration", ratio |-> FutureHopeRatio(actors') ]
    /\ UNCHANGED <<school, pc, year_start, twin, twin_draws, seed>>

Next ==
    \/ SimulateYear
    \/ TickInfrastructure
    \/ TickDxClarity
    \/ TickStrategyLayer
    \/ TickPortalAndDb
    \/ TickPmAndDesign
    \/ TickChangeDynamics
    \/ TickEducationAssets
    \/ TickInnovation
    \/ TickExternalSystems
    \/ TickTrustAndTransparency
    \/ TickBurnout
    \/ TickStudents
    \/ TickProductivityAndEfficiency
    \/ PrintReintegrationReport

Spec == Init /\ [][Next]_vars

---------------------------------------------------------------------------
(* Two runs side by side: the run of Spec and a second run (twin) that      *)
(* starts from the same state and makes its own draws                       *)

\* the _noise calls tick p makes on st: their possible results, as pairs
TickNoise(p, st) ==
    CASE p \in { "_tick_infrastructure", "_tick_dx_clarity", "_tick_burnout" } ->
            _noise(st, 200) \X { NoDraw }
      [] p = "_tick_portal_and_db" ->
            (IF PortalNegativePath(st) THEN _noise(st, 200) ELSE { NoDraw }) \X { NoDraw }
      [] p = "_tick_students" -> _noise(st, 500) \X { NoDraw }
      [] p = "_tick_productivity_and_efficiency" -> _noise(st, 300) \X _noise(st, 300)
      [] OTHER -> { <<NoDraw, NoDraw>> }

\* the fields after tick p of simulate_year()
TickSchool(p, st, acts, ns) ==
    CASE p = "_tick_infrastructure" -> _tick_infrastructure(st, ns[1])
      [] p = "_tick_dx_clarity" -> _tick_dx_clarity(st, ns[1])
      [] p = "_tick_strategy_layer" -> _tick_strategy_layer(st)
      [] p = "_tick_portal_and_db" -> _tick_portal_and_db(st, ns[1])
      [] p = "_tick_pm_and_design" -> _tick_pm_and_design(st)
      [] p = "_tick_change_dynamics" -> _tick_change_dynamics(st, acts)
      [] p = "_tick_education_assets" -> _tick_education_assets(st)
      [] p = "_tick_innovation" -> _tick_innovation(st)
      [] p = "_tick_external_systems" -> _tick_external_systems(st)
      [] p = "_tick_trust_and_transparency" -> _tick_trust_and_transparency(st)
      [] p = "_tick_burnout" -> _tick_burnout(st, ns[1])
      [] p = "_tick_students" -> _tick_students(st, ns[1])
      [] p = "_tick_productivity_and_efficiency" ->
            _tick_productivity_and_efficiency(st, ns[1], ns[2])

\* the actors after tick p; st is the school before the tick, st2 after it
TickActors(p, st, st2, acts) ==
    CASE p = "_tick_change_dynamics" -> _tick_change_dynamics_actors(st, acts)
      [] p = "_tick_burnout" -> _tick_burnout_actors(st2, acts)
      [] OTHER -> acts

InitDet == Init /\ school.randomness = 0

\* both runs call simulate_year()
DetSimulateYear ==
    /\ pc = "idle"
    /\ school.years_simulated < MaxYears
    /\ school' = [ school EXCEPT !.years_simulated = @ + 1 ]
    /\ twin' = [ twin EXCEPT !.school.years_simulated = @ + 1 ]
    /\ year_start' = school
    /\ pc' = TickOrder[1]
    /\ UNCHANGED <<actors, rng_draws, reports, twin_draws, printed, seed>>

\* both runs execute the same tick, each with its own draws
DetTick ==
    /\ pc # "idle"
    /\ \E ns \in TickNoise(pc, school), ms \in TickNoise(pc, twin.school) :
         LET st == TickSchool(pc, school, actors, ns)
             tw == TickSchool(pc, twin.school, twin.actors, ms)
         IN  /\ school' = st
             /\ actors' = TickActors(pc, school, st, actors)
             /\ twin' = [ school |-> tw,
                          actors |-> TickActors(pc, twin.school, tw, twin.actors) ]
             /\ rng_draws' = rng_draws + ns[1].drew + ns[2].drew
             /\ twin_draws' = twin_draws + ms[1].drew + ms[2].drew
    /\ pc' = NextPc(pc)
    /\ UNCHANGED <<year_start, reports, printed, seed>>

NextDet ==
    \/ DetSimulateYear
    \/ DetTick

SpecDet == InitDet /\ [][NextDet]_vars

---------------------------------------------------------------------------
(* Two Organizations that differ in the starting value of one field and
   receive the same noise draws, followed through simulate_year() *)

VariedFields == { "efficiency_index_true", "productivity_index", "burnout_index" }

VariedStarts == { 0, Unit \div 2, Unit }

Field(st, f) ==
    CASE f = "efficiency_index_true" -> st.efficiency_index_true
      [] f = "productivity_index" -> st.productivity_index
      [] f = "burnout_index" -> st.burnout_index

WithField(st, f, v) ==
    CASE f = "efficiency_index_true" -> [ st EXCEPT !.efficiency_index_true = v ]
      [] f = "productivity_index" -> [ st EXCEPT !.productivity_index = v ]
      [] f = "burnout_index" -> [ st EXCEPT !.burnout_index = v ]

\* a value of the field is at an end of [0, 1], where max/min can absorb a gap
AtBound(v) == v <= 0 \/ v >= Unit

InitVary ==
    /\ \E sc \in Scenarios, f \in VariedFields :
         /\ school = sc.school
         /\ actors = sc.actors
         /\ \E v \in VariedStarts \ { Field(sc.school, f) } :
              twin = [ school |-> WithField(sc.school, f, v),
                       actors |-> sc.actors,
                       varied |-> f,
                       gap |-> v - Field(sc.school, f),
                       clamped |-> AtBound(v) \/ AtBound(Field(sc.school, f)) ]
    /\ pc = "idle"
    /\ year_start = school
    /\ rng_draws = 0
    /\ reports = 0
    /\ twin_draws = 0
    /\ printed = NothingPrinted
    /\ seed = {}

\* both Organizations call simulate_year()
VarySimulateYear ==
    /\ pc = "idle"
    /\ school.years_simulated < YearsBound(school)
    /\ school' = [ school EXCEPT !.years_simulated = @ + 1 ]
    /\ twin' = [ twin EXCEPT !.school.years_simulated = @ + 1 ]
    /\ year_start' = school
    /\ pc' = TickOrder[1]
    /\ UNCHANGED <<actors, rng_draws, reports, twin_draws, printed, seed>>

\* both Organizations execute the same tick with the same draws
VaryTick ==
    /\ pc # "idle"
    /\ \E ns \in TickNoise(pc, school) :
         LET st == TickSchool(pc, school, actors, ns)
             tw == TickSchool(pc, twin.school, twin.actors, ns)
         IN  /\ school' = st
             /\ actors' = TickActors(pc, school, st, actors)
             /\ twin' = [ twin EXCEPT
                            !.school = tw,
                            !.actors = TickActors(pc, twin.school, tw, twin.actors),
                            !.clamped = @ \/ AtBound(Field(st, twin.varied))
                                          \/ AtBound(Field(tw, twin.varied)) ]
             /\ rng_draws' = rng_draws + ns[1].drew + ns[2].drew
             /\ twin_draws' = twin_draws + ns[1].drew + ns[2].drew
    /\ pc' = NextPc(pc)
    /\ UNCHANGED <<year_start, reports, printed, seed>>

NextVary ==
    \/ VarySimulateYear
    \/ VaryTick

SpecVary == InitVary /\ [][NextVary]_vars

---------------------------------------------------------------------------
(* The yearly evolution together with the survival check, without noise *)

\* print_world_comparison(school, world): one evaluate_actor per teacher/admin
PrintWorldComparison ==
    /\ pc = "idle"
    /\ printed' = [ kind |-> "world_comparison",
                    survive |-> [ i \in { k \in DOMAIN actors : actors[k].role \in Staff } |->
                                    evaluate_actor(ExternalWorld, actors[i]) ] ]
    /\ UNCHANGED <<school, actors, pc, year_start, rng_draws, reports, twin,
                   twin_draws, seed>>

NextReport ==
    \/ SimulateYear
    \/ TickInfrastructure
    \/ TickDxClarity
    \/ TickStrategyLayer
    \/ TickPortalAndDb
    \/ TickPmAndDesign
    \/ TickChangeDynamics
    \/ TickEducationAssets
    \/ TickInnovation
    \/ TickExternalSystems
    \/ TickTrustAndTransparency
    \/ TickBurnout
    \/ TickStudents
    \/ TickProductivityAndEfficiency
    \/ PrintReintegrationReport
    \/ PrintWorldComparison

SpecReport == InitDet /\ [][NextReport]_vars

---------------------------------------------------------------------------
(* simulate(): the demo scenario run for five years under a seeded stream *)

\* years: int = 5
DemoYears == 5

\* the call sites of _noise in one simulate_year(): the tick that draws, and
\* the second draw of the last tick
NoiseSites ==
    { "_tick_infrastructure", "_tick_dx_clarity", "_tick_portal_and_db",
      "_tick_burnout", "_tick_students", "_tick_productivity_and_efficiency",
      "efficiency_index_true" }

\* of the results ns of one _noise call, the highest or the lowest
SeededDraw(ns, high) ==
    CHOOSE n \in ns : \A m \in ns : IF high THEN n.val >= m.val ELSE n.val <= m.val

\* the results of the _noise calls of tick p under the stream of seed sd:
\* a site in sd draws the upper end, every other site the lower end
SeededNoise(p, st, sd) ==
    << SeededDraw({ q[1] : q \in TickNoise(p, st) }, p \in sd),
       SeededDraw({ q[2] : q \in TickNoise(p, st) }, "efficiency_index_true" \in sd) >>

\* build_demo_scenario(random_seed): the demo Organization (randomness 0.05),
\* the six named staff and the students, under any of the seeds
InitDemo ==
    /\ school = DemoSchool
    /\ \E d \in [ 1..NumStudents -> StudentDraws ] : actors = DemoStaff \o Students(d)
    /\ seed \in SUBSET NoiseSites
    /\ pc = "idle"
    /\ year_start = school
    /\ rng_draws = 0
    /\ reports = 0
    /\ twin = [ school |-> school, actors |-> actors ]
    /\ twin_draws = 0
    /\ printed = NothingPrinted

\* for _ in range(years): school.simulate_year()
DemoSimulateYear ==
    /\ pc = "idle"
    /\ school.years_simulated < DemoYears
    /\ school' = [ school EXCEPT !.years_simulated = @ + 1 ]
    /\ year_start' = school
    /\ pc' = TickOrder[1]
    /\ UNCHANGED <<actors, rng_draws, reports, twin, twin_draws, printed, seed>>

\* the next tick of the running simulate_year(), its draws given by the seed
DemoTick ==
    /\ pc # "idle"
    /\ LET ns == SeededNoise(pc, school, seed)
           st == TickSchool(pc, school, actors, ns)
       IN  /\ school' = st
           /\ actors' = TickActors(pc, school, st, actors)
           /\ rng_draws' = rng_draws + ns[1].drew + ns[2].drew
    /\ pc' = NextPc(pc)
    /\ UNCHANGED <<year_start, reports, twin, twin_draws, printed, seed>>

NextDemo ==
    \/ DemoSimulateYear
    \/ DemoTick

SpecDemo == InitDemo /\ [][NextDemo]_vars

\* the demo scenario with one adaptability draw shared by the students
InitDemoLive ==
    /\ InitDemo
    /\ \A i, j \in DOMAIN actors :
         (actors[i].role = "student" /\ actors[j].role = "student")
            => actors[i].adaptability = actors[j].adaptability

\* simulate() runs its loop to the end: a year that can be called is called,
\* and a tick that can run does
SpecDemoLive == InitDemoLive /\ [][NextDemo]_vars /\ WF_vars(NextDemo)

---------------------------------------------------------------------------
(* The reporting helpers on their own, applied to inputs from a grid *)

\* the values the four fields behind env_score are drawn from
HopeLevels == { 0, 3000, Unit }

\* Organizations that differ in the four fields behind env_score
HopeSchools ==
    { [ DemoSchool EXCEPT !.suppression_level = s, !.dx_clarity = c,
                          !.student_learning_efficiency = e,
                          !.ai_accessibility_index = a ] :
        s \in HopeLevels, c \in HopeLevels, e \in HopeLevels, a \in HopeLevels }

\* students over the range of adaptability, tags and attitudes
HopeStudents ==
    { Actor("Student", "student", os, ad, TRUE, att) :
        os \in { {}, {"LegacyOS"}, {"LLM-aware"} },
        ad \in { 0, 5000, Unit },
        att \in { "support", "neutral", "resist" } }

\* teachers around the survival threshold, with every kind of tag
SurvivalStaff ==
    { Actor("Teacher", "teacher", os, ad, FALSE, att) :
        os \in { {}, {"LegacyOS"}, {"MasOS"}, {"HighAdaptOS", "LLM-aware"},
                 {"LegacyOS", "HighAdaptOS"} },
        ad \in { 0, 6900, 7400, 8400, 8800, 8900, 9500, Unit },
        att \in { "support", "neutral", "resist" } }

\* one student in each Organization of the grid, or a teacher next to the
\* same teacher burned out in the demo Organization
InitPure ==
    /\ \/ /\ school \in HopeSchools
          /\ \E a \in HopeStudents : actors = <<a>>
       \/ /\ school = DemoSchool
          /\ \E a \in SurvivalStaff :
               actors = << a, [ a EXCEPT !.burned_out = TRUE, !.name = "BurnedOutTeacher" ] >>
    /\ pc = "idle"
    /\ year_start = school
    /\ rng_draws = 0
    /\ reports = 0
    /\ twin = [ school |-> school, actors |-> actors ]
    /\ twin_draws = 0
    /\ printed = NothingPrinted
    /\ seed = {}

\* print_stakeholder_scores(school, utilities)
PrintStakeholderScores ==
    /\ pc = "idle"
    /\ \E utilities \in UtilityLists :
         printed' = [ kind |-> "stakeholder_scores",
                      utilities |-> utilities,
                      lines |-> ScoresPrinted(utilities, school) ]
    /\ UNCHANGED <<school, actors, pc, year_start, rng_draws, reports, twin,
                   twin_draws, seed>>

NextPure ==
    \/ PrintWorldComparison
    \/ PrintStakeholderScores
    \/ PrintReintegrationReport

SpecPure == InitPure /\ [][NextPure]_vars

---------------------------------------------------------------------------
(* Properties *)

InRange(v) == 0 <= v /\ v <= Unit

\* the actor has one of the two reintegration outcomes
Terminal(a) == a.rebooted_outside \/ a.casualty_of_system

\* teacher/admin the burnout tick still looks at and has not yet marked
Unmarked(a) == a.role \in Staff /\ ~a.has_left_system /\ ~a.burned_out

\* the step is the burnout tick of some year
BurnoutTickStep == pc = "_tick_burnout" /\ pc' = "_tick_students"

\* C1: when simulate_year() returns, every bounded scalar of the Organization
\* lies in [0,1], for any number of calls and any noise draws.
C1_BoundedAfterYear ==
    pc = "idle" => \A f \in BoundedFields : InRange(school[f])

\* a noisy year has returned with fields held at the lower bound by the clamp
C1_Witness ==
    /\ pc = "idle"
    /\ school.years_simulated >= 1
    /\ school.randomness > 0
    /\ rng_draws > 0
    /\ school.dx_clarity = 0
    /\ school.productivity_index = 0
    /\ school.burnout_index > 0

\* C2: between any two consecutive ticks of simulate_year() every bounded
\* scalar, burnout_index included, lies in [0,1].
C2_BoundedBetweenTicks ==
    \A f \in BoundedFields : InRange(school[f])

\* C3: efficiency_index_recognized after a simulate_year() call is never
\* smaller than it was before that call.
C3_Ratchet ==
    pc = "idle" =>
        school.efficiency_index_recognized >= year_start.efficiency_index_recognized

\* a second year has returned and raised the recognized efficiency
C3_Witness ==
    /\ pc = "idle"
    /\ school.years_simulated >= 2
    /\ school.efficiency_index_recognized > year_start.efficiency_index_recognized
    /\ year_start.efficiency_index_recognized > 1000

\* C4: burned_out and has_left_system are one-way flags: no tick, no later
\* year and no reintegration report resets either of them.
C4_OneWayFlags ==
    [][ \A i \in DOMAIN actors :
          /\ actors[i].burned_out => actors'[i].burned_out
          /\ actors[i].has_left_system => actors'[i].has_left_system ]_vars

\* after a later year and a report, one actor is still departed and another
\* is still burned out although burnout_index is back under its threshold
C4_Witness ==
    /\ pc = "idle"
    /\ school.years_simulated >= 2
    /\ reports >= 1
    /\ \E i \in DOMAIN actors : actors[i].burned_out /\ actors[i].has_left_system
    /\ \E j \in DOMAIN actors :
          /\ actors[j].burned_out
          /\ ~actors[j].has_left_system
          /\ school.burnout_index <= 10000 - actors[j].adaptability

\* C5: with randomness = 0.0 two runs from the same initial state are in the
\* same state after every tick, and no tick draws from the random stream.
C5_Deterministic ==
    school.randomness = 0 =>
        /\ twin.school = school
        /\ twin.actors = actors
        /\ rng_draws = 0
        /\ twin_draws = 0

\* both runs have simulated every year and staff has burned out and left
C5_Witness ==
    /\ pc = "idle"
    /\ school.randomness = 0
    /\ school.years_simulated = MaxYears
    /\ \E i \in DOMAIN actors : actors[i].has_left_system
    /\ \E i \in DOMAIN twin.actors : twin.actors[i].opportunity_choice = "stay_inside"

\* C6: with suppression_level > 0.5 and at least one teacher/admin of
\* adaptability >= 0.7, every simulate_year() call returns with
\* change_seeds_suppressed >= change_seeds_planted and with
\* systemic_opportunity_cost above its value before the call.
C6_SeedsSuppressed ==
    ( /\ pc = "idle"
      /\ school.years_simulated >= 1
      /\ school.suppression_level > 5000
      /\ \E i \in DOMAIN actors :
            actors[i].role \in Staff /\ actors[i].adaptability >= 7000 )
    => /\ school.change_seeds_suppressed >= school.change_seeds_planted
       /\ school.systemic_opportunity_cost > year_start.systemic_opportunity_cost

\* a second year has returned under suppression that is not strong (<= 0.6),
\* after a high adapter had left
C6_Witness ==
    /\ pc = "idle"
    /\ school.years_simulated >= 2
    /\ school.suppression_level > 5000
    /\ school.suppression_level <= 6000
    /\ school.change_seeds_planted >= 2
    /\ \E i \in DOMAIN actors :
          /\ actors[i].role \in Staff
          /\ actors[i].adaptability >= 7000
          /\ actors[i].has_left_system

\* C7: no actor ever has both rebooted_outside and casualty_of_system, also
\* when the reintegration report runs more than once.
C7_MutuallyExclusive ==
    \A i \in DOMAIN actors :
        ~(actors[i].rebooted_outside /\ actors[i].casualty_of_system)

\* C8: a terminal flag implies has_left_system, and the first reintegration
\* report sets a terminal flag on every departed teacher/admin and on no
\* other actor.
C8_TerminalAfterDeparture ==
    /\ [](\A i \in DOMAIN actors : Terminal(actors[i]) => actors[i].has_left_system)
    /\ [][ (reports = 0 /\ reports' = 1) =>
             \A i \in DOMAIN actors :
                Terminal(actors'[i])
                    <=> (actors[i].role \in Staff /\ actors[i].has_left_system) ]_vars

\* a report has run over a roster with a departed actor, a burned-out actor
\* that stayed, and a student
C8_Witness ==
    /\ reports >= 1
    /\ \E i \in DOMAIN actors : Terminal(actors[i])
    /\ \E i \in DOMAIN actors :
          actors[i].burned_out /\ ~actors[i].has_left_system /\ ~Terminal(actors[i])
    /\ \E i \in DOMAIN actors : actors[i].role = "student" /\ ~Terminal(actors[i])

\* C9: the burnout tick marks exactly the unmarked teacher/admin whose
\* threshold 0.5 + (0.5 - adaptability) is below the new burnout_index:
\* adaptability > 0.6 leaves (cost + 1.0), adaptability <= 0.6 stays
\* (cost + 0.7); every other unmarked teacher/admin is unchanged.
C9_BurnoutTick ==
    [][ BurnoutTickStep =>
          \A i \in DOMAIN actors :
            LET a == actors[i]
                b == actors'[i]
            IN  Unmarked(a) =>
                  IF school'.burnout_index > 5000 + (5000 - a.adaptability)
                  THEN IF a.adaptability > 6000
                       THEN b = [ a EXCEPT !.burned_out = TRUE,
                                           !.has_left_system = TRUE,
                                           !.opportunity_choice = "leave_outside",
                                           !.opportunity_cost = a.opportunity_cost + 10000 ]
                       ELSE b = [ a EXCEPT !.burned_out = TRUE,
                                           !.opportunity_choice = "stay_inside",
                                           !.opportunity_cost = a.opportunity_cost + 7000 ]
                  ELSE b = a ]_vars

\* the tick has marked an actor of adaptability exactly 0.6, who stays, and
\* one above 0.6, who leaves, and has left a third one unmarked
C9_Witness ==
    /\ pc = "_tick_students"
    /\ \E i \in DOMAIN actors :
          /\ actors[i].adaptability = 6000
          /\ actors[i].burned_out
          /\ ~actors[i].has_left_system
          /\ actors[i].opportunity_choice = "stay_inside"
          /\ actors[i].opportunity_cost = 7000
    /\ \E i \in DOMAIN actors :
          /\ actors[i].has_left_system
          /\ actors[i].opportunity_choice = "leave_outside"
          /\ actors[i].opportunity_cost = 10000
    /\ \E i \in DOMAIN actors : Unmarked(actors[i])

\* C10 as stated: of two unmarked teacher/admin, whenever the burnout tick
\* marks the more adaptable one it marks the less adaptable one too.
C10_LessAdaptableTripsFirst ==
    [][ BurnoutTickStep =>
          \A i, j \in DOMAIN actors :
            ( /\ Unmarked(actors[i])
              /\ Unmarked(actors[j])
              /\ actors[i].adaptability < actors[j].adaptability
              /\ actors'[j].burned_out )
            => actors'[i].burned_out ]_vars

\* C10 as amended: of two unmarked teacher/admin, whenever the burnout tick
\* marks the less adaptable one it marks the more adaptable one too.
C10_MoreAdaptableTripsFirst ==
    [][ BurnoutTickStep =>
          \A i, j \in DOMAIN actors :
            ( /\ Unmarked(actors[i])
              /\ Unmarked(actors[j])
              /\ actors[i].adaptability < actors[j].adaptability
              /\ actors'[i].burned_out )
            => actors'[j].burned_out ]_vars

\* the tick has marked a teacher/admin and left a less adaptable one
\* unmarked; an earlier year had marked one more adaptable than both
C10_Witness ==
    /\ pc = "_tick_students"
    /\ school.years_simulated >= 2
    /\ \E i, j, k \in DOMAIN actors :
          /\ Unmarked(actors[i])
          /\ actors[j].role \in Staff
          /\ actors[j].burned_out
          /\ actors[k].role \in Staff
          /\ actors[k].burned_out
          /\ actors[i].adaptability < actors[j].adaptability
          /\ actors[j].adaptability < actors[k].adaptability

\* C11: an actor's opportunity_cost never decreases; it changes only in a step
\* that marks the actor burned out, and then by exactly 0.7 or exactly 1.0, so
\* it is incremented at most once; once an actor is burned out, no later step
\* changes its opportunity_cost or its opportunity_choice.
C11_OpportunityCostOnce ==
    /\ [](\A i \in DOMAIN actors :
             /\ actors[i].opportunity_cost \in { 0, 7000, 10000 }
             /\ actors[i].opportunity_cost > 0 => actors[i].burned_out)
    /\ [][\A i \in DOMAIN actors :
             /\ actors'[i].opportunity_cost >= actors[i].opportunity_cost
             /\ actors'[i].opportunity_cost # actors[i].opportunity_cost =>
                    /\ ~actors[i].burned_out /\ actors'[i].burned_out
                    /\ actors'[i].opportunity_cost - actors[i].opportunity_cost
                           \in { 7000, 10000 }
             /\ actors[i].burned_out =>
                    /\ actors'[i].opportunity_cost = actors[i].opportunity_cost
                    /\ actors'[i].opportunity_choice = actors[i].opportunity_choice
       ]_vars

\* a later year's burnout tick is about to run on an actor that stayed inside
\* after burning out (cost 0.7) while burnout_index is still over its threshold
C11_Witness ==
    /\ pc = "_tick_students"
    /\ school.years_simulated >= 2
    /\ \E i \in DOMAIN actors :
         /\ actors[i].role \in Staff
         /\ actors[i].burned_out /\ ~actors[i].has_left_system
         /\ actors[i].opportunity_cost = 7000
         /\ actors[i].opportunity_choice = "stay_inside"
         /\ school.burnout_index > BurnoutThreshold(actors[i])
         /\ year_start.burnout_index > BurnoutThreshold(actors[i])

\* C12: no step of simulate_year() changes any actor's rebooted_outside,
\* casualty_of_system, future_hope_probability or is_future_hope, and the
\* survival check (evaluate_actor, run by print_world_comparison) changes no
\* actor and no field of the Organization.
C12_ReportingKeptApart ==
    [][ /\ (pc # "idle" \/ pc' # "idle") =>
              /\ DOMAIN actors' = DOMAIN actors
              /\ \A i \in DOMAIN actors :
                   /\ actors'[i].rebooted_outside = actors[i].rebooted_outside
                   /\ actors'[i].casualty_of_system = actors[i].casualty_of_system
                   /\ actors'[i].future_hope_probability = actors[i].future_hope_probability
                   /\ actors'[i].is_future_hope = actors[i].is_future_hope
        /\ (printed' # printed /\ printed'.kind = "world_comparison") =>
              /\ school' = school
              /\ actors' = actors
      ]_vars

\* a year is running after a report gave a departed teacher an outcome and a
\* student a future-hope probability and after a survival check; this
\* year's burnout tick has run
C12_Witness ==
    /\ pc = "_tick_students"
    /\ school.years_simulated >= 2
    /\ reports >= 1
    /\ printed.kind = "world_comparison"
    /\ \E i \in DOMAIN actors : actors[i].has_left_system /\ Terminal(actors[i])
    /\ \E i \in DOMAIN actors :
         /\ actors[i].role = "student"
         /\ actors[i].future_hope_probability > 0

\* the effective adaptability as C13 words it
C13_Effective(a) ==
      a.adaptability
    - (IF "LegacyOS" \in a.os_version THEN 1500 ELSE 0)
    + (IF \E tag \in { "HighAdaptOS", "MasOS", "LLM-aware" } : tag \in a.os_version
       THEN 1500 ELSE 0)
    + (IF a.change_attitude = "support" THEN 500 ELSE 0)
    - (IF a.change_attitude = "resist" THEN 500 ELSE 0)

\* C13: evaluate_actor returns true exactly when the effective adaptability
\* (adaptability, -0.15 with the legacy marker, +0.15 once with any
\* high-adaptability marker, +0.05 for support, -0.05 for resist, unclamped)
\* is >= selection_pressure + 0.1 * ai_shift_speed; two actors that differ
\* only in burned_out get the same result; the threshold for 0.8 and 0.9 is
\* exactly 0.89.
C13_SurvivalCheck ==
    /\ required_threshold([ selection_pressure |-> 8000, ai_shift_speed |-> 9000 ]) = 8900
    /\ printed.kind = "world_comparison" =>
          /\ \A i \in DOMAIN printed.survive :
                printed.survive[i] <=>
                    C13_Effective(actors[i])
                        >= ExternalWorld.selection_pressure
                           + Mul(1000, ExternalWorld.ai_shift_speed)
          /\ \A i, j \in DOMAIN printed.survive :
                [ actors[i] EXCEPT !.burned_out = FALSE, !.name = "" ]
                    = [ actors[j] EXCEPT !.burned_out = FALSE, !.name = "" ]
                => printed.survive[i] = printed.survive[j]

\* the survival check has run on a burned-out teacher whose effective
\* adaptability is exactly the threshold, and on the same teacher not burned
\* out: both survive
C13_Witness ==
    /\ printed.kind = "world_comparison"
    /\ \E i, j \in DOMAIN printed.survive :
         /\ actors[i].burned_out /\ ~actors[j].burned_out
         /\ actors[i].adaptability = actors[j].adaptability
         /\ C13_Effective(actors[i]) = 8900
         /\ actors[i].os_version = {"LegacyOS", "HighAdaptOS"}
         /\ printed.survive[i] /\ printed.survive[j]

\* the mean of the four components of env_score, before the clamp
C14_EnvMean(st) ==
    (  (Unit - st.suppression_level) + st.dx_clarity
     + st.student_learning_efficiency + st.ai_accessibility_index) \div 4

\* C14: for an Organization whose fields are in range, the mean behind
\* env_score lies in [0,1] and every probability student_future_hope_probability
\* has returned for an actor lies in [0,1].
C14_HopeInRange ==
    (/\ InRange(school.suppression_level) /\ InRange(school.dx_clarity)
     /\ InRange(school.student_learning_efficiency)
     /\ InRange(school.ai_accessibility_index))
    => /\ InRange(C14_EnvMean(school))
       /\ EnvScore(school) = C14_EnvMean(school)
       /\ \A i \in DOMAIN actors :
             /\ InRange(actors[i].future_hope_probability)
             /\ (reports > 0 /\ actors[i].role = "student") =>
                   actors[i].future_hope_probability
                       = student_future_hope_probability(school, ExternalWorld, actors[i])

\* the report has computed the probability of the least adaptable student in
\* the least favourable Organization: small, and above 0
C14_Witness ==
    /\ reports > 0
    /\ C14_EnvMean(school) = 0
    /\ \E i \in DOMAIN actors :
         /\ actors[i].role = "student"
         /\ actors[i].adaptability = 0
         /\ actors[i].change_attitude = "resist"
         /\ "LegacyOS" \in actors[i].os_version
         /\ actors[i].future_hope_probability > 0
         /\ actors[i].future_hope_probability < 10

\* delta of student_future_hope_probability
C15_Delta(a) ==
    base_effective_adaptability(ExternalWorld, a) - required_threshold(ExternalWorld)

\* C15: the probability the report stored for a student does not exceed the
\* probability of the same student in any Organization with an env_score at
\* least as high, nor the probability, in the same Organization, of any
\* student with a delta at least as high.
C15_HopeMonotone ==
    reports > 0 =>
      \A i \in DOMAIN actors :
        actors[i].role = "student" =>
          /\ \A st \in HopeSchools :
                EnvScore(st) >= EnvScore(school) =>
                  student_future_hope_probability(st, ExternalWorld, actors[i])
                      >= actors[i].future_hope_probability
          /\ \A a \in HopeStudents :
                C15_Delta(a) >= C15_Delta(actors[i]) =>
                  student_future_hope_probability(school, ExternalWorld, a)
                      >= actors[i].future_hope_probability

\* a stored probability that a higher env_score strictly raises and that a
\* higher delta strictly raises
C15_Witness ==
    /\ reports > 0
    /\ \E i \in DOMAIN actors :
         /\ actors[i].role = "student"
         /\ actors[i].future_hope_probability > 0
         /\ \E st \in HopeSchools :
              /\ EnvScore(st) > EnvScore(school)
              /\ student_future_hope_probability(st, ExternalWorld, actors[i])
                     > actors[i].future_hope_probability
         /\ \E a \in HopeStudents :
              /\ C15_Delta(a) > C15_Delta(actors[i])
              /\ student_future_hope_probability(school, ExternalWorld, a)
                     > actors[i].future_hope_probability

\* C16: no step of simulate_year() adds, removes or reorders actors or changes
\* an actor's role, and none changes burned_out, has_left_system,
\* opportunity_choice or opportunity_cost of a student.
C16_StudentsStay ==
    [][ (pc # "idle" \/ pc' # "idle") =>
          /\ Len(actors') = Len(actors)
          /\ \A i \in DOMAIN actors :
               /\ actors'[i].name = actors[i].name
               /\ actors'[i].role = actors[i].role
               /\ actors[i].role = "student" =>
                     /\ actors'[i].burned_out = actors[i].burned_out
                     /\ actors'[i].has_left_system = actors[i].has_left_system
                     /\ actors'[i].opportunity_choice = actors[i].opportunity_choice
                     /\ actors'[i].opportunity_cost = actors[i].opportunity_cost
      ]_vars

\* the burnout tick has just marked a teacher and passed over a student whose
\* own threshold 1 - adaptability the burnout_index exceeds; the exit-rate
\* estimate of the year before was above 0
C16_Witness ==
    /\ pc = "_tick_students"
    /\ school.student_exit_rate > 0
    /\ \E j \in DOMAIN actors :
         /\ actors[j].role \in Staff
         /\ actors[j].has_left_system
    /\ \E i \in DOMAIN actors :
         /\ actors[i].role = "student"
         /\ school.burnout_index > BurnoutThreshold(actors[i])
         /\ ~actors[i].burned_out /\ ~actors[i].has_left_system
         /\ actors[i].opportunity_cost = 0
         /\ actors[i].opportunity_choice = "none"

\* the names of the actors with has_left_system
C17_Departed == { actors[i].name : i \in { k \in DOMAIN actors : actors[k].has_left_system } }

\* C17: the demo scenario (six named staff, default coefficients, suppression
\* 0.8, randomness 0.05) run for 5 years ends with years_simulated = 5 and
\* with the same set of departed actors whatever the noise draws were: the
\* three high-adaptability teachers.
C17_DemoBaseline ==
    /\ school.years_simulated <= DemoYears
    /\ (pc = "idle" /\ rng_draws >= 6 * DemoYears) =>
          /\ school.years_simulated = DemoYears
          /\ C17_Departed = { "HighAdaptTeacher1", "HighAdaptTeacher2", "HighAdaptTeacher3" }
    /\ (pc = "idle" /\ school.years_simulated = DemoYears) =>
          C17_Departed = { "HighAdaptTeacher1", "HighAdaptTeacher2", "HighAdaptTeacher3" }

\* five noisy years have run under a seed whose draws lower the burnout
\* index (infrastructure and DX clarity high, burnout noise low)
C17_Witness ==
    /\ pc = "idle"
    /\ school.years_simulated = DemoYears
    /\ school.randomness = 500 /\ school.suppression_level = 8000
    /\ rng_draws >= 6 * DemoYears
    /\ "_tick_infrastructure" \in seed /\ "_tick_dx_clarity" \in seed
    /\ "_tick_burnout" \notin seed
    /\ C17_Departed = { "HighAdaptTeacher1", "HighAdaptTeacher2", "HighAdaptTeacher3" }

\* the utility's weights name a field the Organization does not have
C18_NamesUnknownField(u) ==
    \E k \in DOMAIN u.weights : u.weights[k][1] \notin DOMAIN school

\* C18: a score computation raises AttributeError exactly when the weights
\* name a field the Organization does not have (the field never counts as
\* zero), print_stakeholder_scores stops at the first score that raises, and
\* computing scores, failing or not, leaves the Organization and the actors
\* unchanged.
C18_ScoreRaises ==
    /\ [](printed.kind = "stakeholder_scores" =>
            /\ \A i \in DOMAIN printed.lines :
                  /\ printed.lines[i].name = printed.utilities[i].name
                  /\ printed.lines[i].score.raised = "AttributeError"
                        <=> C18_NamesUnknownField(printed.utilities[i])
                  /\ printed.lines[i].score.raised \in { "none", "AttributeError" }
                  /\ printed.lines[i].score.raised # "none" => i = Len(printed.lines)
            /\ Len(printed.lines) < Len(printed.utilities) =>
                  printed.lines[Len(printed.lines)].score.raised = "AttributeError")
    /\ [][ (printed' # printed /\ printed'.kind = "stakeholder_scores") =>
              /\ school' = school
              /\ actors' = actors
         ]_vars

\* the scores of the three default utilities were printed and the score of
\* the utility that names "morale_index" raised
C18_Witness ==
    /\ printed.kind = "stakeholder_scores"
    /\ Len(printed.utilities) = 4
    /\ Len(printed.lines) = 4
    /\ \A i \in 1..3 :
         /\ printed.lines[i].score.raised = "none"
         /\ printed.lines[i].score.value # 0
    /\ printed.lines[4].name = "StaffMorale"
    /\ printed.lines[4].score.raised = "AttributeError"

\* the students of the roster
C19_Students == { i \in DOMAIN actors : actors[i].role = "student" }

\* C19: the reporting step always completes with a ratio, and with a roster
\* of zero students the ratio it computes is 0.0 (no division by zero).
C19_RatioWithoutStudents ==
    printed.kind = "reintegration" =>
        /\ printed.ratio.raised = "none"
        /\ C19_Students = {} => printed.ratio.value = 0
        /\ C19_Students # {} =>
              printed.ratio.value * Cardinality(C19_Students)
                  = Unit * Cardinality({ i \in C19_Students : actors[i].is_future_hope })

\* the report has run on a roster without students and has given a departed
\* teacher its outcome
C19_Witness ==
    /\ printed.kind = "reintegration"
    /\ reports >= 1
    /\ C19_Students = {}
    /\ \E i \in DOMAIN actors : actors[i].has_left_system /\ Terminal(actors[i])
    /\ printed.ratio = [ raised |-> "none", value |-> 0 ]

\* C20: in the trust/transparency tick of any year, when suppression_level >
\* 0.6 or info_transparency < 0.4 or dx_clarity < 0.3 holds as the tick
\* starts, leadership_trust_battery ends the tick strictly lower than it
\* started, or stays at 0 if it was 0, and never ends it higher.
C20_TrustFalls ==
    [][ (/\ pc = "_tick_trust_and_transparency"
         /\ pc' = "_tick_burnout"
         /\ \/ school.suppression_level > 6000
            \/ school.info_transparency < 4000
            \/ school.dx_clarity < 3000)
        => /\ school'.leadership_trust_battery <= school.leadership_trust_battery
           /\ \/ school'.leadership_trust_battery < school.leadership_trust_battery
              \/ school.leadership_trust_battery = 0
      ]_vars

\* the five favourable conditions of the trust/transparency tick
C21_FiveConditions(st) ==
    /\ st.suppression_level < 4000 /\ st.info_transparency > 6000
    /\ st.pm_capability > 5000 /\ st.grand_design_clarity > 5000
    /\ st.portal_maturity > 5000

\* C21 as stated: whenever a tick of simulate_year() leaves
\* leadership_trust_battery higher than it found it, the five favourable
\* conditions held.
C21_TrustRisesOnlyUnderFive ==
    [][ school'.leadership_trust_battery > school.leadership_trust_battery
        => C21_FiveConditions(school) ]_vars

\* C21 amended: a tick that leaves leadership_trust_battery higher is either
\* the trust/transparency tick, and the five favourable conditions held, or
\* the PM/design tick, and pm_capability > 0.6, grand_design_clarity > 0.6,
\* dx_clarity > 0.5 and suppression_level < 0.4 held.
C21_TrustRisesInTwoTicks ==
    [][ school'.leadership_trust_battery > school.leadership_trust_battery
        => \/ /\ pc = "_tick_trust_and_transparency"
              /\ C21_FiveConditions(school)
           \/ /\ pc = "_tick_pm_and_design"
              /\ school.pm_capability > 6000 /\ school.grand_design_clarity > 6000
              /\ school.dx_clarity > 5000 /\ school.suppression_level < 4000
      ]_vars

\* the PM/design tick has just raised the trust battery of an Organization
\* whose portal is immature, so that the five conditions do not hold
C21_Witness ==
    /\ pc = "_tick_change_dynamics"
    /\ school.leadership_trust_battery > year_start.leadership_trust_battery
    /\ ~C21_FiveConditions(school)
    /\ school.portal_maturity <= 5000
    /\ school.info_transparency > 6000

\* C22: in the strategy tick of a year with has_swot false and
\* suppression_level > 0.6, strategic_consistency and leadership_trust_battery
\* each end the tick strictly lower (unless already 0),
\* change_request_intensity and change_rejection_rate do not fall, and
\* rhetorical_change_slogans increases by exactly 1.
C22_StrategyUnderSuppression ==
    [][ (/\ pc = "_tick_strategy_layer"
         /\ pc' = "_tick_portal_and_db"
         /\ ~school.has_swot
         /\ school.suppression_level > 6000)
        => /\ \/ school'.strategic_consistency < school.strategic_consistency
              \/ school.strategic_consistency = 0
           /\ \/ school'.leadership_trust_battery < school.leadership_trust_battery
              \/ school.leadership_trust_battery = 0
           /\ school'.change_request_intensity >= school.change_request_intensity
           /\ school'.change_rejection_rate >= school.change_rejection_rate
           /\ school'.rhetorical_change_slogans = school.rhetorical_change_slogans + 1
      ]_vars

\* C23: in the change-seed tick of a year with suppression_level <= 0.5,
\* infrastructure_health rises by 0.04 * (1 - suppression_level), dx_clarity
\* rises by 0.08 * (1 - suppression_level) and burnout_index falls by
\* 0.02 * (1 - suppression_level), each then clamped to [0,1], whatever the
\* number of high adapters in the roster; change_seeds_suppressed is unchanged.
C23_OpenBranchImproves ==
    [][ (/\ pc = "_tick_change_dynamics"
         /\ pc' = "_tick_education_assets"
         /\ school.suppression_level <= 5000)
        => LET openness == Unit - school.suppression_level
           IN  /\ school'.infrastructure_health
                     = Max(0, Min(Unit, school.infrastructure_health + Mul(400, openness)))
               /\ school'.dx_clarity
                     = Max(0, Min(Unit, school.dx_clarity + Mul(800, openness)))
               /\ school'.burnout_index
                     = Max(0, Min(Unit, school.burnout_index - Mul(200, openness)))
               /\ school'.change_seeds_suppressed = school.change_seeds_suppressed
      ]_vars

\* C24: no step raises a student's adaptability or takes it below 0: it
\* changes only in the change-seed tick, to max(0, adaptability - 0.01 *
\* suppression_level); the adaptability of a teacher/admin never changes.
C24_AdaptabilityDrift ==
    /\ [](\A i \in DOMAIN actors : actors[i].adaptability >= 0)
    /\ [][\A i \in DOMAIN actors :
             /\ actors[i].role \in Staff =>
                   actors'[i].adaptability = actors[i].adaptability
             /\ actors[i].role = "student" =>
                   /\ actors'[i].adaptability <= actors[i].adaptability
                   /\ actors'[i].adaptability # actors[i].adaptability =>
                         /\ pc = "_tick_change_dynamics"
                         /\ actors'[i].adaptability
                               = Max(0, actors[i].adaptability
                                        - Mul(100, school.suppression_level))
       ]_vars

\* the change-seed tick has taken a student's adaptability to the floor 0,
\* and a later year has left it there
C24_Witness ==
    /\ pc = "_tick_education_assets"
    /\ school.years_simulated >= 2
    /\ school.suppression_level > 5000
    /\ \E i \in DOMAIN actors :
         /\ actors[i].role = "student"
         /\ actors[i].adaptability = 0
    /\ \E i \in DOMAIN actors :
         /\ actors[i].role \in Staff
         /\ actors[i].adaptability >= 7000

\* C25: two Organizations that differ only in the starting value of
\* efficiency_index_true and receive the same noise draws are in identical
\* states when simulate_year() returns; two that differ only in the starting
\* value of productivity_index (or of burnout_index) still differ in it, by
\* the same amount, unless max/min held one of the values at 0 or 1 on the way.
C25_EfficiencyFromScratch ==
    (pc = "idle" /\ school.years_simulated >= 1) =>
        /\ twin.varied = "efficiency_index_true" =>
              /\ twin.school = school
              /\ twin.actors = actors
        /\ (twin.varied # "efficiency_index_true" /\ ~twin.clamped) =>
              Field(twin.school, twin.varied) - Field(school, twin.varied)
                = twin.gap

\* a year with noise has run on a pair that started with different
\* efficiency_index_true, and the recomputed value is strictly inside (0, 1),
\* so that no clamp made the two equal
C25_Witness ==
    /\ pc = "idle"
    /\ school.years_simulated = 1
    /\ twin.varied = "efficiency_index_true"
    /\ twin.gap # 0
    /\ school.randomness > 0
    /\ school.efficiency_index_true > 0
    /\ school.efficiency_index_true < Unit
    /\ school.efficiency_index_true # year_start.efficiency_index_true

\* the fields that grow only along the improvement pathways
C26_Pathways ==
    { "portal_maturity", "database_foundation", "educational_asset_index",
      "central_repository_level", "innovation_potential_index",
      "local_llm_infra_level", "ai_service_quality_index",
      "ai_accessibility_index" }

\* C26: no step changes suppression_level, the environment or the
\* coefficients, and while suppression_level >= 0.4 no step raises
\* portal_maturity, database_foundation, educational_asset_index,
\* central_repository_level, innovation_potential_index,
\* local_llm_infra_level, ai_service_quality_index or ai_accessibility_index.
C26_SuppressionBlocks ==
    [][ /\ school'.suppression_level = school.suppression_level
        /\ school'.env = school.env
        /\ school'.dynamics = school.dynamics
        /\ school.suppression_level >= 4000 =>
              \A f \in C26_Pathways : school'[f] <= school[f]
      ]_vars

\* an Organization at suppression_level exactly 0.4, otherwise ready for
\* every pathway, has run the portal, education and innovation ticks and
\* none of its assets has grown
C26_Witness ==
    /\ pc = "_tick_external_systems"
    /\ school.suppression_level = 4000
    /\ school.dx_clarity >= 6000
    /\ school.infrastructure_health >= 5000
    /\ school.env.budget_pressure < 8000
    /\ year_start.educational_asset_index >= 5000
    /\ year_start.educational_asset_index < Unit
    /\ year_start.central_repository_level >= 5000
    /\ \A f \in C26_Pathways : school[f] <= year_start[f]

\* C27: a step raises years_simulated by exactly 1 when it is the call of
\* simulate_year() and leaves it alone otherwise; no step lowers
\* change_seeds_planted, change_seeds_suppressed, rhetorical_change_slogans,
\* external_spend or systemic_opportunity_cost; and in every state
\* change_seeds_suppressed <= change_seeds_planted.
C27_CountersGrow ==
    /\ [](school.change_seeds_suppressed <= school.change_seeds_planted)
    /\ [][ /\ school'.years_simulated
                = school.years_simulated
                  + (IF pc = "idle" /\ pc' # "idle" THEN 1 ELSE 0)
            /\ school'.change_seeds_planted >= school.change_seeds_planted
            /\ school'.change_seeds_suppressed >= school.change_seeds_suppressed
            /\ school'.rhetorical_change_slogans >= school.rhetorical_change_slogans
            /\ school'.external_spend >= school.external_spend
            /\ school'.systemic_opportunity_cost >= school.systemic_opportunity_cost
       ]_vars

\* two years have returned and every counter and accumulator has grown
C27_Witness ==
    /\ pc = "idle"
    /\ school.years_simulated = 2
    /\ school.change_seeds_suppressed > 0
    /\ school.change_seeds_suppressed = school.change_seeds_planted
    /\ school.rhetorical_change_slogans = 2
    /\ school.external_spend > 0
    /\ school.systemic_opportunity_cost > Unit

\* the teacher/admin actors with adaptability >= 0.7, whatever their flags
C28_HighAdapters ==
    { i \in DOMAIN actors :
        /\ actors[i].role \in { "teacher", "admin" }
        /\ actors[i].adaptability >= 7000 }

\* C28: when simulate_year() has returned N times on a fresh Organization,
\* change_seeds_planted is N times the number of teacher/admin actors with
\* adaptability >= 0.7, departed and burned-out ones included.
C28_SeedsPerYear ==
    pc = "idle" =>
        school.change_seeds_planted
          = school.years_simulated * Cardinality(C28_HighAdapters)

\* a year has run after a high adapter left the system, and that actor's
\* seed was still planted
C28_Witness ==
    /\ pc = "idle"
    /\ school.years_simulated >= 2
    /\ \E i \in C28_HighAdapters :
         /\ actors[i].has_left_system
         /\ actors[i].burned_out
    /\ \A i \in C28_HighAdapters : actors[i].has_left_system
    /\ school.change_seeds_planted > year_start.change_seeds_planted
    /\ year_start.change_seeds_planted > 0

\* C29: in every state, an actor that has left the system is a teacher/admin,
\* burned out, of adaptability > 0.6, with opportunity_choice leave_outside
\* and opportunity_cost 1.0; opportunity_choice is stay_inside exactly for the
\* burned-out actors that have not left, whose adaptability is <= 0.6 and
\* opportunity_cost 0.7; and it is none exactly for the actors that are not
\* burned out, whose opportunity_cost is 0.
C29_FlagsAgree ==
    \A i \in DOMAIN actors :
        LET a == actors[i]
        IN  /\ a.has_left_system =>
                  /\ a.role \in { "teacher", "admin" }
                  /\ a.burned_out
                  /\ a.adaptability > 6000
                  /\ a.opportunity_choice = "leave_outside"
                  /\ a.opportunity_cost = Unit
            /\ a.opportunity_choice = "stay_inside"
                  <=> (a.burned_out /\ ~a.has_left_system)
            /\ a.opportunity_choice = "stay_inside" =>
                  /\ a.adaptability <= 6000
                  /\ a.opportunity_cost = 7000
            /\ a.opportunity_choice = "none" <=> ~a.burned_out
            /\ a.opportunity_choice = "none" => a.opportunity_cost = 0

\* a roster after two years in which one actor has left, the actor of
\* adaptability exactly 0.6 has stayed, and one is not burned out
C29_Witness ==
    /\ pc = "idle"
    /\ school.years_simulated >= 2
    /\ \E i \in DOMAIN actors : actors[i].has_left_system
    /\ \E i \in DOMAIN actors :
         /\ actors[i].opportunity_choice = "stay_inside"
         /\ actors[i].adaptability = 6000
    /\ \E i \in DOMAIN actors :
         /\ actors[i].role \in { "teacher", "admin" }
         /\ actors[i].opportunity_choice = "none"

\* C30: when simulate_year() has returned, every teacher/admin that has
\* neither left nor burned out has burnout_index <= 1 - adaptability; the
\* ticks that follow the burnout tick leave burnout_index alone; and a
\* teacher/admin of adaptability 0 is not burned out in any state.
C30_UnmarkedBelowThreshold ==
    /\ [](\A i \in DOMAIN actors :
            actors[i].role \in { "teacher", "admin" } =>
                /\ (/\ pc = "idle"
                     /\ school.years_simulated >= 1
                     /\ ~actors[i].has_left_system
                     /\ ~actors[i].burned_out)
                       => school.burnout_index <= Unit - actors[i].adaptability
                /\ actors[i].adaptability = 0 => ~actors[i].burned_out)
    /\ [][ (pc = "_tick_students" \/ pc = "_tick_productivity_and_efficiency")
              => school'.burnout_index = school.burnout_index
       ]_vars

\* years have returned with burnout_index at 1.0: the teacher/admin of
\* adaptability 0 sits exactly at its threshold and is not marked, while the
\* others of the roster are
C30_Witness ==
    /\ pc = "idle"
    /\ school.years_simulated >= 2
    /\ school.burnout_index = Unit
    /\ \E i \in DOMAIN actors :
         /\ actors[i].role \in { "teacher", "admin" }
         /\ actors[i].adaptability = 0
         /\ ~actors[i].burned_out
         /\ ~actors[i].has_left_system
    /\ \E i \in DOMAIN actors : actors[i].burned_out

\* the departed teacher/admin actors of roster acts for whom evaluate_actor
\* is false
C31_DepartedBelowThreshold(acts) ==
    { i \in DOMAIN acts :
        /\ acts[i].role \in { "teacher", "admin" }
        /\ acts[i].has_left_system
        /\ ~evaluate_actor(ExternalWorld, acts[i]) }

\* C31: every actor that has left the system is burned out; a departed
\* teacher/admin for whom evaluate_actor is false is never rebooted_outside,
\* and every reintegration report, whatever its draws, marks it
\* casualty_of_system.
C31_PenaltyDecides ==
    /\ [](\A i \in DOMAIN actors :
            /\ actors[i].has_left_system => actors[i].burned_out
            /\ i \in C31_DepartedBelowThreshold(actors)
                  => ~actors[i].rebooted_outside)
    /\ [][ reports' # reports =>
              \A i \in C31_DepartedBelowThreshold(actors) :
                  /\ actors'[i].casualty_of_system
                  /\ ~actors'[i].rebooted_outside
       ]_vars

\* a report has been printed for a departed actor that is less than the
\* noise bound 0.1 below the threshold: without the burnout penalty the
\* upper draw would have rebooted it
C31_Witness ==
    /\ reports >= 1
    /\ \E i \in C31_DepartedBelowThreshold(actors) :
         /\ actors[i].casualty_of_system
         /\ base_effective_adaptability(ExternalWorld, actors[i]) + 1000
               >= required_threshold(ExternalWorld)

\* C32: in the demo scenario, whatever the noise draws, a year ends with
\* burnout_index at 1.0 while further years remain; a year that starts with
\* burnout_index at 1.0 ends with it at 1.0; and eventually every
\* teacher/admin of the roster is burned out, for good.
C32_BurnoutSaturates ==
    /\ <>(/\ pc = "idle"
           /\ school.burnout_index = Unit
           /\ school.years_simulated < DemoYears)
    /\ []((/\ pc = "idle"
            /\ school.years_simulated >= 1
            /\ year_start.burnout_index = Unit)
              => school.burnout_index = Unit)
    /\ <>[](\A i \in DOMAIN actors :
               actors[i].role \in { "teacher", "admin" } => actors[i].burned_out)

\* under the draws that keep burnout lowest, a year that began below 1.0 has
\* ended at 1.0 with every teacher/admin of the demo roster burned out
C32_Witness ==
    /\ pc = "idle"
    /\ school.suppression_level = 8000
    /\ school.randomness = 500
    /\ "_tick_burnout" \notin seed
    /\ "_tick_infrastructure" \in seed /\ "_tick_dx_clarity" \in seed
    /\ school.burnout_index = Unit
    /\ year_start.burnout_index < Unit
    /\ school.years_simulated < DemoYears
    /\ \A i \in DOMAIN actors :
         actors[i].role \in { "teacher", "admin" } =>
             actors[i].burned_out /\ actors[i].adaptability > 0

====
